---- MODULE Spec2Model ----
(***************************************************************************)
(* Model of the Voxta client protocol engine (src/voxta_client/client.py): *)
(* the session-pinning state machine, the dispatch of inbound SignalR      *)
(* frames, the outbound commands and the events handed to the registry.    *)
(*                                                                         *)
(* Python dicts are functions over the set of keys they hold; an absent    *)
(* key is absent from the DOMAIN, and dict.get is Get / GetDefault.        *)
(* Python's None is the value None.  Every handler is one action; the      *)
(* variables op, pre, sent and emitted record the operation that ran last, *)
(* the state it started from, the envelopes it handed to Transport.send    *)
(* and the events it passed to _emit (each with the SessionState a handler *)
(* would read at that moment).  The record is kept until the operation     *)
(* returns to the event loop (Return); the next operation starts from the  *)
(* idle loop.                                                              *)
(*                                                                         *)
(* Spec drives the client handler by handler with no application handlers  *)
(* registered.  LoopSpec drives it through the transport's read loop, one  *)
(* socket read at a time, with handlers registered through on().  ConnSpec *)
(* follows one connection after another and keeps, in wire, what each      *)
(* connection has written to its socket since it was opened.  SuspendSpec  *)
(* splits a command where it can be suspended, between the client_send     *)
(* event and the socket write, and lets the read loop run in between.      *)
(* LegacySpec drives the older single-file client (src/voxta_client.py),   *)
(* which pins differently, with the same payloads.                         *)
(***************************************************************************)
EXTENDS Integers, Sequences, FiniteSets, TLC

VARIABLES
    session_id,        \* VoxtaClient.session_id
    active_chat_id,    \* VoxtaClient._active_chat_id
    is_thinking,       \* VoxtaClient.is_thinking
    is_speaking,       \* VoxtaClient.is_speaking
    last_message_id,   \* VoxtaClient.last_message_id
    running,           \* VoxtaClient.running (the transport's flag)
    callbacks,         \* VoxtaClient.callbacks: event name -> list of handlers
    loop,              \* the transport's read loop task: "none" or "reading"
    op,                \* the last operation and its arguments
    pre,               \* SessionState, running, callbacks before the last operation
    sent,              \* envelopes handed to Transport.send by the last operation
    emitted,           \* _emit calls of the last operation, in order
    invoked,           \* handler invocations of the last operation, in order
    written,           \* socket writes attempted by the last operation, in order
    closed,            \* calls of the close callback by the last operation
    raised,            \* the exception the last operation raised to its caller
    wire,              \* what was written to the socket of the current
                       \* connection, oldest first (kept by ConnSpec only)
    subscribed,        \* the sessions a subscribeToChat written to that
                       \* socket names (kept by ConnSpec only)
    suspended,         \* the commands suspended between their client_send
                       \* event and their socket write (SuspendSpec only)
    legacy_chat_id     \* VoxtaClient.chat_id of the older single-file client
                       \* (src/voxta_client.py; LegacySpec only)

vars == <<session_id, active_chat_id, is_thinking, is_speaking, last_message_id,
          running, callbacks, loop, op, pre, sent, emitted, invoked, written,
          closed, raised, wire, subscribed, suspended,
          legacy_chat_id>>

\* Longest "sessions" list of a chatsSessionsUpdated payload.
MaxSessions == 2

None == "None"
EmptyDict == [k \in {} |-> None]

\* dict.get(k) and dict.get(k, default)
Get(d, k) == IF k \in DOMAIN d THEN d[k] ELSE None
GetDefault(d, k, default) == IF k \in DOMAIN d THEN d[k] ELSE default
\* d[k] = v
Put(d, k, v) == (k :> v) @@ d
\* truth value of an Optional[str]
Truthy(x) == x \notin {None, ""}
\* a or b
Or(a, b) == IF Truthy(a) THEN a ELSE b

ChatIds == {"A", "B"}
SessionIds == {"s1", "s2"}
MessageIds == {"m1", "m2"}

----------------------------------------------------------------------------
(* SessionState and the per-operation context *)

SessionState ==
    [session_id |-> session_id, active_chat_id |-> active_chat_id,
     is_thinking |-> is_thinking, is_speaking |-> is_speaking,
     last_message_id |-> last_message_id]

\* State after VoxtaClient.__init__
InitState ==
    [session_id |-> None, active_chat_id |-> None, is_thinking |-> FALSE,
     is_speaking |-> FALSE, last_message_id |-> None]

\* The context an operation starts from: the client's fields, nothing sent,
\* emitted, invoked, written or raised, no uuid drawn; write_ok says whether
\* the socket accepts the writes of this operation; sub is the position, in
\* the socket read being processed, of the sub-message being handled (0
\* outside the read loop); tasks are the coroutines scheduled with
\* asyncio.create_task that have not run yet.
Ctx0(write_ok) ==
    [st |-> SessionState, running |-> running, callbacks |-> callbacks,
     loop |-> loop, sent |-> <<>>, emitted |-> <<>>, invoked |-> <<>>,
     written |-> <<>>, closed |-> 0, raised |-> None, n |-> 0,
     write_ok |-> write_ok, sub |-> 0, tasks |-> <<>>]

\* str(uuid.uuid4()): the n-th identifier drawn by the current operation.
\* Identifiers of different operations are not distinguished.
Uuid4(n) == IF n = 0 THEN "uuid-0" ELSE "uuid-1"

----------------------------------------------------------------------------
(* EventRegistry and Transport as the client uses them *)

\* A handler is known by its name, by whether it is a coroutine function
\* (awaited) or a plain function (called), and by whether it raises.
\* NoCallback is the None passed for on()'s optional callback.
NoCallback ==
    [id |-> None, is_async |-> FALSE, raises |-> FALSE, registers |-> None]

\* self.callbacks[event_name].append(callback), the list created when absent
Registered(cbs, event_name) ==
    IF event_name \in DOMAIN cbs THEN cbs[event_name] ELSE <<>>

\* A plausible slip: a registration replaces the handlers of the event.
OnOverwriting(ctx, event_name, callback) ==
    IF callback # NoCallback
    THEN [ctx EXCEPT !.callbacks = Put(@, event_name, <<callback>>)]
    ELSE ctx

\* VoxtaClient.on(event_name, callback): the direct form appends the handler;
\* with no callback nothing is registered and a decorator is returned.
On(ctx, event_name, callback) ==
    IF callback # NoCallback
    THEN [ctx EXCEPT !.callbacks =
             Put(@, event_name, Append(Registered(@, event_name), callback))]
    ELSE ctx

\* The decorator returned by on(event_name), applied to inner_callback.
Decorator(ctx, event_name, inner_callback) ==
    [ctx EXCEPT !.callbacks =
        Put(@, event_name, Append(Registered(@, event_name), inner_callback))]

\* The older client's _emit: no try/except around the handler.
InvokeUncaught(ctx, event_name, cb, data) ==
    [ctx EXCEPT !.invoked =
                    Append(@, [name |-> event_name, cb |-> cb, data |-> data,
                               seen |-> ctx.st, sub |-> ctx.sub,
                               awaited |-> cb.is_async, caught |-> FALSE]),
                !.raised = IF cb.raises THEN "Exception" ELSE @]

\* The plain function a registering handler passes to client.on().
LateCallback ==
    [id |-> "late", is_async |-> FALSE, raises |-> FALSE, registers |-> None]

\* What a handler does when it runs: one whose body calls
\* client.on(event_name, ...) appends to self.callbacks[event_name], either
\* another function ("other") or itself ("self").
HandlerBody(ctx, event_name, cb) ==
    IF cb.registers = None
    THEN ctx
    ELSE [ctx EXCEPT !.callbacks =
            Put(@, event_name,
                Append(Registered(@, event_name),
                       IF cb.registers = "self" THEN cb ELSE LateCallback))]

\* One turn of the loop of _emit: the handler is awaited or called inside
\* try/except Exception; what it raises is logged and goes no further.
Invoke(ctx, event_name, cb, data) ==
    HandlerBody(
        [ctx EXCEPT !.invoked =
                    Append(@, [name |-> event_name, cb |-> cb, data |-> data,
                               seen |-> ctx.st, sub |-> ctx.sub,
                               awaited |-> cb.is_async, caught |-> cb.raises])],
        event_name, cb)

\* Turns of the loop of _emit that are followed in one emission.
MaxTurns == 4

\* for cb in self.callbacks[event_name]: the list iterator keeps an index
\* into the list object itself, so turn i reads the list as it is then,
\* with whatever the earlier turns appended to it.
RECURSIVE RunCallbacks(_, _, _, _)
RunCallbacks(ctx, event_name, i, data) ==
    IF \/ i > Len(Registered(ctx.callbacks, event_name))
       \/ i > MaxTurns
       \/ ctx.raised # None
    THEN ctx
    ELSE RunCallbacks(
            Invoke(ctx, event_name, Registered(ctx.callbacks, event_name)[i],
                   data),
            event_name, i + 1, data)

\* The coroutine VoxtaClient._emit(event_name, data), run: the call is
\* recorded with the state a handler invoked by it reads and with the number
\* of envelopes handed to the transport so far, then the handlers registered
\* for the name run in list order.
EmitCoroutine(ctx, event_name, data) ==
    RunCallbacks(
        [ctx EXCEPT !.emitted =
            Append(@, [name |-> event_name, data |-> data, seen |-> ctx.st,
                       sub |-> ctx.sub, sends |-> Len(ctx.sent)])],
        event_name, 1, data)

\* asyncio.create_task(self._emit(event_name, data)): the coroutine is left
\* to the event loop, the caller goes on at once.
CreateTask(ctx, event_name, data) ==
    [ctx EXCEPT !.tasks = Append(@, [name |-> event_name, data |-> data])]

\* The event loop runs the scheduled coroutines, oldest first, once the
\* running operation is suspended or over.
RECURSIVE RunTasks(_)
RunTasks(ctx) ==
    IF ctx.tasks = <<>>
    THEN ctx
    ELSE RunTasks(EmitCoroutine([ctx EXCEPT !.tasks = Tail(@), !.sub = 0],
                                Head(ctx.tasks).name, Head(ctx.tasks).data))

\* A plausible slip: the emission is scheduled, as _handle_close schedules
\* its own, and not awaited.
EmitScheduled(ctx, event_name, data) ==
    IF ctx.raised # None THEN ctx ELSE CreateTask(ctx, event_name, data)

\* await self._emit(event_name, data): the caller goes on when every handler
\* has run.  Nothing runs once an exception is on its way up.
Emit(ctx, event_name, data) ==
    IF ctx.raised # None THEN ctx ELSE EmitCoroutine(ctx, event_name, data)

\* json.dumps(payload) + "\x1e": one wire unit
WireUnit(payload) == [json |-> payload, end |-> "\\x1e"]

\* Not connected, it still writes.
TransportSendUnguarded(ctx, payload) ==
    [ctx EXCEPT !.sent = Append(@, payload),
                !.written = Append(@, [unit |-> WireUnit(payload),
                                       ok |-> ctx.write_ok]),
                !.running = @ /\ ctx.write_ok]

\* VoxtaTransport.send(payload) as the client sees it: the envelope is handed
\* over; the transport does not raise.  Not connected, it writes nothing; a
\* failed write on a connected socket turns running false.
TransportSend(ctx, payload) ==
    IF ctx.raised # None
    THEN ctx
    ELSE IF ctx.running
    THEN [ctx EXCEPT !.sent = Append(@, payload),
                     !.written = Append(@, [unit |-> WireUnit(payload),
                                            ok |-> ctx.write_ok]),
                     !.running = @ /\ ctx.write_ok]
    ELSE [ctx EXCEPT !.sent = Append(@, payload)]

\* VoxtaTransport.close(): always leaves running false.
TransportClose(ctx) == [ctx EXCEPT !.running = FALSE]

----------------------------------------------------------------------------
(* Outbound path *)

\* VoxtaModel.to_dict: "$type" first, then every field whose value is not None.
ToDict(message) ==
    LET kept == {k \in DOMAIN message \ {"type_name"} : message[k] # None}
        keys == kept \cup (IF "type_name" \in DOMAIN message THEN {"$type"} ELSE {})
    IN  [k \in keys |-> IF k = "$type" THEN message["type_name"] ELSE message[k]]

\* ClientMessage.to_signalr_invocation
ToSignalrInvocation(message, invocation_id) ==
    ("type" :> 1) @@ ("invocationId" :> invocation_id) @@
    ("target" :> "SendMessage") @@ ("arguments" :> <<ToDict(message)>>)

\* A plausible slip: an envelope whose write failed is written once more.
SendRawRetrying(ctx, payload) ==
    LET args == GetDefault(payload, "arguments", <<>>)
        invocation_id == Get(payload, "invocationId")
        data == IF Truthy(invocation_id)
                THEN Put(args[1], "invocationId", invocation_id)
                ELSE args[1]
        envelope == Put(payload, "arguments", <<data>> \o Tail(args))
        first == TransportSend(Emit(ctx, "client_send", data), envelope)
    IN  IF ctx.running /\ ~first.running
        THEN [first EXCEPT !.written = Append(@, [unit |-> WireUnit(envelope),
                                                 ok |-> ctx.write_ok])]
        ELSE first

\* A plausible slip: the envelope is handed to the transport before it is
\* announced.
SendRawSendFirst(ctx, payload) ==
    LET args == GetDefault(payload, "arguments", <<>>)
        invocation_id == Get(payload, "invocationId")
        data == IF Truthy(invocation_id)
                THEN Put(args[1], "invocationId", invocation_id)
                ELSE args[1]
    IN  IF payload["type"] = 1 /\ args # <<>>
        THEN Emit(TransportSend(ctx, Put(payload, "arguments",
                                         <<data>> \o Tail(args))),
                  "client_send", data)
        ELSE TransportSend(ctx, payload)

\* VoxtaClient._send_raw: a type-1 envelope with arguments is announced as a
\* client_send event (its first argument tagged in place with the invocation
\* id), then the envelope is handed to the transport.
SendRaw(ctx, payload) ==
    LET args == GetDefault(payload, "arguments", <<>>)
        invocation_id == Get(payload, "invocationId")
        data == IF Truthy(invocation_id)
                THEN Put(args[1], "invocationId", invocation_id)
                ELSE args[1]
    IN  IF payload["type"] = 1 /\ args # <<>>
        THEN TransportSend(Emit(ctx, "client_send", data),
                           Put(payload, "arguments", <<data>> \o Tail(args)))
        ELSE TransportSend(ctx, payload)

\* VoxtaClient._send_client_message
SendClientMessage(ctx, message) ==
    SendRaw([ctx EXCEPT !.n = @ + 1], ToSignalrInvocation(message, Uuid4(ctx.n)))

----------------------------------------------------------------------------
(* Event names (voxta_client.constants.EventType): each is the "$type" *)
(* string of the payload it names; "ready" is synthesized by the client. *)

EventType ==
    [WELCOME |-> "welcome", CHATS_SESSIONS_UPDATED |-> "chatsSessionsUpdated",
     CHAT_STARTED |-> "chatStarted", MESSAGE |-> "message", UPDATE |-> "update",
     ERROR |-> "error", REPLY_GENERATING |-> "replyGenerating",
     REPLY_START |-> "replyStart", REPLY_END |-> "replyEnd",
     SPEECH_PLAYBACK_START |-> "speechPlaybackStart",
     SPEECH_PLAYBACK_COMPLETE |-> "speechPlaybackComplete",
     INTERRUPT_SPEECH |-> "interruptSpeech", READY |-> "ready"]

----------------------------------------------------------------------------
(* Commands the inbound path issues itself *)

\* VoxtaClient.register_app
RegisterApp(ctx) ==
    SendClientMessage(ctx,
        ("type_name" :> "registerApp") @@ ("clientVersion" :> "1.2.1") @@
        ("label" :> "Voxta Python Client"))

\* VoxtaClient.authenticate
Authenticate(ctx) ==
    SendClientMessage(ctx,
        ("type_name" :> "authenticate") @@ ("client" :> "Voxta.Client.Web") @@
        ("clientVersion" :> "1.2.1"))

\* VoxtaClient.subscribe_to_chat(session_id, chat_id): no guard on either id.
SubscribeToChat(ctx, sid, chat_id) ==
    SendClientMessage(ctx,
        ("type_name" :> "subscribeToChat") @@ ("sessionId" :> sid) @@
        ("chatId" :> chat_id))

----------------------------------------------------------------------------
(* Inbound path *)

Min(S) == CHOOSE x \in S : \A y \in S : x <= y

\* A plausible slip: always follow the first entry of the list.
PinTargetFirst(sessions, active) == sessions[1]

\* next((s for s in sessions if s.get("chatId") == self._active_chat_id),
\*      sessions[0])
PinTarget(sessions, active) ==
    LET hits == {i \in 1..Len(sessions) : Get(sessions[i], "chatId") = active}
    IN  IF hits # {} THEN sessions[Min(hits)] ELSE sessions[1]

\* A plausible slip: ready is emitted before the subscription is sent.
HandleSessionsUpdatedReadyFirst(ctx, payload) ==
    LET sessions == GetDefault(payload, "sessions", <<>>)
        target == PinTarget(sessions, ctx.st.active_chat_id)
        chat_id == Get(target, "chatId")
        pinned == [ctx EXCEPT !.st.active_chat_id = chat_id,
                              !.st.session_id = Get(target, "sessionId")]
    IN  IF sessions # <<>>
        THEN SubscribeToChat(Emit(pinned, EventType.READY, pinned.st.session_id),
                             pinned.st.session_id, chat_id)
        ELSE ctx

\* A plausible slip: an empty list clears the pin.
HandleSessionsUpdatedClearing(ctx, payload) ==
    LET sessions == GetDefault(payload, "sessions", <<>>)
        target == PinTarget(sessions, ctx.st.active_chat_id)
        chat_id == Get(target, "chatId")
        pinned == [ctx EXCEPT !.st.active_chat_id = chat_id,
                              !.st.session_id = Get(target, "sessionId")]
    IN  IF sessions # <<>>
        THEN Emit(SubscribeToChat(pinned, pinned.st.session_id, chat_id),
                  EventType.READY, pinned.st.session_id)
        ELSE [ctx EXCEPT !.st.active_chat_id = None, !.st.session_id = None]

\* VoxtaClient._handle_sessions_updated
HandleSessionsUpdated(ctx, payload) ==
    LET sessions == GetDefault(payload, "sessions", <<>>)
        target == PinTarget(sessions, ctx.st.active_chat_id)
        chat_id == Get(target, "chatId")
        pinned == [ctx EXCEPT !.st.active_chat_id = chat_id,
                              !.st.session_id = Get(target, "sessionId")]
    IN  IF sessions # <<>>
        THEN Emit(SubscribeToChat(pinned, pinned.st.session_id, chat_id),
                  EventType.READY, pinned.st.session_id)
        ELSE ctx

\* The older client's rule: re-pin only for a chat id that is new.
HandleChatStartedIfNew(ctx, payload) ==
    LET chat_id == Get(payload, "chatId")
        pinned == [ctx EXCEPT !.st.session_id = Get(payload, "sessionId"),
                              !.st.active_chat_id = chat_id]
    IN  IF Truthy(chat_id) /\ chat_id # ctx.st.active_chat_id
        THEN Emit(pinned, EventType.READY, pinned.st.session_id)
        ELSE ctx

\* VoxtaClient._handle_chat_started
HandleChatStarted(ctx, payload) ==
    LET chat_id == Get(payload, "chatId")
        pinned == [ctx EXCEPT !.st.session_id = Get(payload, "sessionId"),
                              !.st.active_chat_id = chat_id]
    IN  Emit(pinned, EventType.READY, pinned.st.session_id)

\* A plausible slip: the id of a payload of any "$type" is tracked.
TrackMessageIdAnyType(ctx, payload) ==
    LET msg_id == Or(Get(payload, "messageId"), Get(payload, "id"))
    IN  IF Truthy(msg_id)
        THEN [ctx EXCEPT !.st.last_message_id = msg_id]
        ELSE ctx

\* "Track message IDs" (client.py 599-607)
TrackMessageId(ctx, payload) ==
    LET event_type == Get(payload, "$type")
        msg_id == Or(Get(payload, "messageId"), Get(payload, "id"))
    IN  IF Truthy(msg_id) /\ event_type \in
              {EventType.MESSAGE, EventType.UPDATE, EventType.REPLY_START,
               EventType.SPEECH_PLAYBACK_START}
        THEN [ctx EXCEPT !.st.last_message_id = msg_id]
        ELSE ctx

\* "Chat session already exists" in err_msg, over the messages of the inputs.
ContainsAlreadyExists(err_msg) ==
    err_msg \in {"Chat session already exists",
                 "Error: Chat session already exists for this chat"}

\* A plausible slip: replyEnd does not clear is_thinking.
ManageStateReplyEndIgnored(ctx, payload) ==
    LET event_type == Get(payload, "$type")
    IN  CASE event_type = EventType.WELCOME -> RegisterApp(ctx)
          [] event_type = EventType.CHATS_SESSIONS_UPDATED ->
                HandleSessionsUpdated(ctx, payload)
          [] event_type = EventType.CHAT_STARTED -> HandleChatStarted(ctx, payload)
          [] event_type = EventType.ERROR -> ctx
          [] event_type \in {EventType.REPLY_GENERATING, EventType.REPLY_START} ->
                [ctx EXCEPT !.st.is_thinking = TRUE]
          [] event_type = EventType.REPLY_END -> ctx
          [] event_type = EventType.SPEECH_PLAYBACK_START ->
                [ctx EXCEPT !.st.is_speaking = TRUE]
          [] event_type = EventType.SPEECH_PLAYBACK_COMPLETE ->
                [ctx EXCEPT !.st.is_speaking = FALSE]
          [] event_type = EventType.INTERRUPT_SPEECH ->
                [ctx EXCEPT !.st.is_speaking = FALSE, !.st.is_thinking = FALSE]
          [] OTHER -> ctx

\* A plausible slip: interruptSpeech clears is_speaking only.
ManageStateInterruptKeepsThinking(ctx, payload) ==
    LET event_type == Get(payload, "$type")
    IN  CASE event_type = EventType.WELCOME -> RegisterApp(ctx)
          [] event_type = EventType.CHATS_SESSIONS_UPDATED ->
                HandleSessionsUpdated(ctx, payload)
          [] event_type = EventType.CHAT_STARTED -> HandleChatStarted(ctx, payload)
          [] event_type = EventType.ERROR -> ctx
          [] event_type \in {EventType.REPLY_GENERATING, EventType.REPLY_START} ->
                [ctx EXCEPT !.st.is_thinking = TRUE]
          [] event_type = EventType.REPLY_END ->
                [ctx EXCEPT !.st.is_thinking = FALSE]
          [] event_type = EventType.SPEECH_PLAYBACK_START ->
                [ctx EXCEPT !.st.is_speaking = TRUE]
          [] event_type = EventType.SPEECH_PLAYBACK_COMPLETE ->
                [ctx EXCEPT !.st.is_speaking = FALSE]
          [] event_type = EventType.INTERRUPT_SPEECH ->
                [ctx EXCEPT !.st.is_speaking = FALSE]
          [] OTHER -> ctx

\* "Internal state management" (client.py 617-642).  The error branch only
\* logs, whether or not the message is the benign one.
ManageState(ctx, payload) ==
    LET event_type == Get(payload, "$type")
    IN  CASE event_type = EventType.WELCOME -> RegisterApp(ctx)
          [] event_type = EventType.CHATS_SESSIONS_UPDATED ->
                HandleSessionsUpdated(ctx, payload)
          [] event_type = EventType.CHAT_STARTED -> HandleChatStarted(ctx, payload)
          [] event_type = EventType.ERROR -> ctx
          [] event_type \in {EventType.REPLY_GENERATING, EventType.REPLY_START} ->
                [ctx EXCEPT !.st.is_thinking = TRUE]
          [] event_type = EventType.REPLY_END ->
                [ctx EXCEPT !.st.is_thinking = FALSE]
          [] event_type = EventType.SPEECH_PLAYBACK_START ->
                [ctx EXCEPT !.st.is_speaking = TRUE]
          [] event_type = EventType.SPEECH_PLAYBACK_COMPLETE ->
                [ctx EXCEPT !.st.is_speaking = FALSE]
          [] event_type = EventType.INTERRUPT_SPEECH ->
                [ctx EXCEPT !.st.is_speaking = FALSE, !.st.is_thinking = FALSE]
          [] OTHER -> ctx

\* A plausible slip: the generic event is emitted before the state is updated.
ProcessVoxtaEventEmitFirst(ctx, payload) ==
    IF ~Truthy(Get(payload, "$type"))
    THEN ctx
    ELSE ManageState(TrackMessageId(Emit(ctx, Get(payload, "$type"), payload),
                                    payload), payload)

\* A plausible slip: no early return for a payload without "$type".
ProcessVoxtaEventUntyped(ctx, payload) ==
    Emit(ManageState(TrackMessageId(ctx, payload), payload),
         Get(payload, "$type"), payload)

\* VoxtaClient._process_voxta_event
ProcessVoxtaEvent(ctx, payload) ==
    IF ~Truthy(Get(payload, "$type"))
    THEN ctx
    ELSE Emit(ManageState(TrackMessageId(ctx, payload), payload),
              Get(payload, "$type"), payload)

\* A plausible slip: the close frame is also announced where it is handled,
\* though the read loop announces its own end.
OnCloseFrameAnnouncing(ctx) ==
    [ctx EXCEPT !.running = FALSE, !.closed = @ + 1,
                !.tasks = Append(@, [name |-> "close", data |-> None])]

\* msg_type == 7 (client.py 559-562)
OnCloseFrame(ctx) == [ctx EXCEPT !.running = FALSE]

\* A plausible slip: a failed invocation is announced as an error and then
\* as a completion too.
OnCompletionBoth(ctx, message) ==
    LET error == Get(message, "error")
        completion_data ==
            ("$type" :> "completion") @@
            ("invocationId" :> Get(message, "invocationId")) @@
            ("error" :> error) @@ ("result" :> Get(message, "result"))
        failed == IF Truthy(error)
                  THEN Emit(ctx, EventType.ERROR, completion_data)
                  ELSE ctx
    IN  Emit(failed, "completion", completion_data)

\* msg_type == 3 (client.py 563-581)
OnCompletion(ctx, message) ==
    LET error == Get(message, "error")
        completion_data ==
            ("$type" :> "completion") @@
            ("invocationId" :> Get(message, "invocationId")) @@
            ("error" :> error) @@ ("result" :> Get(message, "result"))
    IN  IF Truthy(error)
        THEN Emit(ctx, EventType.ERROR, completion_data)
        ELSE Emit(ctx, "completion", completion_data)

\* A plausible slip: the invocation's target is not looked at.
OnInvocationAnyTarget(ctx, message) ==
    LET invocation_id == Get(message, "invocationId")
        args == GetDefault(message, "arguments", <<>>)
        payload == IF Truthy(invocation_id)
                   THEN Put(args[1], "invocationId", invocation_id)
                   ELSE args[1]
    IN  IF args # <<>> THEN ProcessVoxtaEvent(ctx, payload) ELSE ctx

\* msg_type == 1 (client.py 583-592)
OnInvocation(ctx, message) ==
    LET invocation_id == Get(message, "invocationId")
        args == GetDefault(message, "arguments", <<>>)
        payload == IF Truthy(invocation_id)
                   THEN Put(args[1], "invocationId", invocation_id)
                   ELSE args[1]
    IN  IF Get(message, "target") = "ReceiveMessage" /\ args # <<>>
        THEN ProcessVoxtaEvent(ctx, payload)
        ELSE ctx

\* VoxtaClient._handle_server_message
HandleServerMessage(ctx, message) ==
    LET msg_type == message["type"]
    IN  CASE msg_type = 6 -> ctx
          [] msg_type = 7 -> OnCloseFrame(ctx)
          [] msg_type = 3 -> OnCompletion(ctx, message)
          [] msg_type = 1 -> OnInvocation(ctx, message)
          [] OTHER -> ctx

----------------------------------------------------------------------------
(* Outbound commands *)

\* Commands that take an optional session id and fall back to the pin.
SessionScopedCommands ==
    {"send_message", "interrupt", "pause", "retry", "revert", "typing_start",
     "typing_end", "add_chat_participant", "remove_chat_participant",
     "update_message", "delete_message", "request_suggestions",
     "trigger_action", "inspect_audio_input", "character_speech_request",
     "speech_playback_start", "speech_playback_complete"}

\* Commands whose session id is a required argument, used as given.
ExplicitSessionCommands == {"subscribe_to_chat", "inspect", "update_context"}

\* Commands that address no session.
SessionFreeCommands ==
    {"start_chat", "resume_chat", "stop_chat", "register_app", "authenticate",
     "load_characters_list", "load_scenarios_list", "load_chats_list"}

\* type_name of the models.py message each command builds
TypeName(name) ==
    CASE name = "send_message" -> "send"
      [] name = "interrupt" -> "interrupt"
      [] name = "pause" -> "pauseChat"
      [] name = "retry" -> "retry"
      [] name = "revert" -> "revert"
      [] name = "typing_start" -> "typingStart"
      [] name = "typing_end" -> "typingEnd"
      [] name = "add_chat_participant" -> "addChatParticipant"
      [] name = "remove_chat_participant" -> "removeChatParticipant"
      [] name = "update_message" -> "update"
      [] name = "delete_message" -> "deleteMessage"
      [] name = "request_suggestions" -> "requestSuggestions"
      [] name = "trigger_action" -> "triggerAction"
      [] name = "inspect_audio_input" -> "inspectAudioInput"
      [] name = "character_speech_request" -> "characterSpeechRequest"
      [] name = "speech_playback_start" -> "speechPlaybackStart"
      [] name = "speech_playback_complete" -> "speechPlaybackComplete"
      [] name = "subscribe_to_chat" -> "subscribeToChat"
      [] name = "inspect" -> "inspect"
      [] name = "update_context" -> "updateContext"
      [] name = "start_chat" -> "startChat"
      [] name = "resume_chat" -> "resumeChat"
      [] name = "stop_chat" -> "stopChat"
      [] name = "register_app" -> "registerApp"
      [] name = "authenticate" -> "authenticate"
      [] name = "load_characters_list" -> "loadCharactersList"
      [] name = "load_scenarios_list" -> "loadScenariosList"
      [] name = "load_chats_list" -> "loadChatsList"

\* A plausible slip: the pin is preferred to the caller's session id.
TargetSessionPinFirst(ctx, session_id_arg) ==
    Or(ctx.st.session_id, session_id_arg)

\* target_session = session_id or self.session_id
TargetSession(ctx, session_id_arg) == Or(session_id_arg, ctx.st.session_id)

\* A plausible slip: the "if not target_session: return" guard is missing.
SessionScopedCommandUnguarded(ctx, name, session_id_arg, message_id_arg) ==
    SendClientMessage(ctx,
        ("type_name" :> TypeName(name)) @@
        ("sessionId" :> TargetSession(ctx, session_id_arg)))

\* The session-scoped commands of client.py (trigger_action ... pause,
\* character_speech_request, speech_playback_start/complete).  Message fields
\* that are copied from the caller's arguments and read by no code (text,
\* characterId, enabled, ...) are left out.
SessionScopedCommand(ctx, name, session_id_arg, message_id_arg) ==
    LET target_session == TargetSession(ctx, session_id_arg)
        target_message == Or(message_id_arg, ctx.st.last_message_id)
        base == ("type_name" :> TypeName(name)) @@ ("sessionId" :> target_session)
    IN  CASE name \in {"speech_playback_start", "speech_playback_complete"} ->
                IF ~Truthy(target_session) \/ ~Truthy(target_message)
                THEN ctx
                ELSE SendClientMessage(ctx, base @@ ("messageId" :> target_message))
          [] name \in {"update_message", "delete_message"} ->
                IF ~Truthy(target_session)
                THEN ctx
                ELSE SendClientMessage(ctx, base @@ ("messageId" :> message_id_arg))
          [] name = "trigger_action" ->
                IF ~Truthy(target_session)
                THEN ctx
                ELSE SendClientMessage([ctx EXCEPT !.n = @ + 1],
                                       base @@ ("messageId" :> Uuid4(ctx.n)))
          [] OTHER ->
                IF ~Truthy(target_session)
                THEN ctx
                ELSE SendClientMessage(ctx, base)

\* subscribe_to_chat, inspect, update_context: the session id is used as given.
ExplicitSessionCommand(ctx, name, session_id_arg, chat_id_arg) ==
    IF name = "subscribe_to_chat"
    THEN SubscribeToChat(ctx, session_id_arg, chat_id_arg)
    ELSE SendClientMessage(ctx,
            ("type_name" :> TypeName(name)) @@ ("sessionId" :> session_id_arg))

\* start_chat, resume_chat, stop_chat, register_app, authenticate, load_*_list
SessionFreeCommand(ctx, name) ==
    CASE name = "register_app" -> RegisterApp(ctx)
      [] name = "authenticate" -> Authenticate(ctx)
      [] OTHER -> SendClientMessage(ctx, "type_name" :> TypeName(name))

\* The handshake frame, first unit written after the socket opens.
Handshake == [protocol |-> "json", version |-> 1]

\* VoxtaTransport.connect: on success running is true, the handshake frame is
\* written and the read loop starts; on failure the attempt raises
\* VoxtaConnectionError and running is false.
TransportConnect(ctx, ok) ==
    IF ok
    THEN [ctx EXCEPT !.running = TRUE, !.loop = "reading",
                     !.written = Append(@, [unit |-> WireUnit(Handshake),
                                            ok |-> TRUE])]
    ELSE [ctx EXCEPT !.running = FALSE, !.raised = "VoxtaConnectionError"]

\* A plausible slip: authenticate is sent whatever the transport did.
ConnectThenAlwaysAuthenticate(ctx, ok) ==
    LET connected == TransportConnect(ctx, ok)
    IN  [Authenticate([connected EXCEPT !.raised = None])
            EXCEPT !.raised = connected.raised]

\* A plausible slip: authenticate is sent again after it was sent.
ConnectAuthenticatingTwice(ctx, ok) ==
    Authenticate(Authenticate(TransportConnect(ctx, ok)))

\* VoxtaClient.connect: the transport connects, then authenticate is sent;
\* what the transport raises goes up before authenticate is reached.
Connect(ctx, ok) == Authenticate(TransportConnect(ctx, ok))

\* A plausible slip: the close handler reconnects on its own.
HandleCloseReconnecting(ctx) ==
    Connect(CreateTask([ctx EXCEPT !.closed = @ + 1], "close", None), TRUE)

\* VoxtaClient._handle_close, the transport's close callback: the close event
\* of the registry is scheduled as a task.
HandleClose(ctx) == CreateTask([ctx EXCEPT !.closed = @ + 1], "close", None)

\* A plausible slip: close() also forgets the session.
CloseClearing(ctx) ==
    [TransportClose(ctx) EXCEPT !.st = InitState]

\* A plausible slip: close() insists on an open connection.
CloseRequiringConnection(ctx) ==
    IF ctx.running
    THEN TransportClose(ctx)
    ELSE [ctx EXCEPT !.raised = "Exception"]

\* VoxtaClient.close
Close(ctx) == TransportClose(ctx)

\* The read loop ends: running turns false and the close callback
\* (VoxtaClient._handle_close) is invoked.
ReadLoopEnds(ctx) ==
    HandleClose([ctx EXCEPT !.running = FALSE, !.loop = "none"])

----------------------------------------------------------------------------
(* The read loop: one socket read, split on the record separator *)

\* raw_msg.strip() is empty
IsBlank(raw_msg) == raw_msg.text \in {"", " "}

\* json.loads(raw_msg): the decoded object, or JSONDecodeError
JsonLoads(raw_msg) ==
    IF raw_msg.text = "json"
    THEN [ok |-> TRUE, value |-> raw_msg.value]
    ELSE [ok |-> FALSE, value |-> None]

\* A plausible slip: a decode failure is not caught where it happens.
OnSubMessageDecodeRaises(ctx, i, raw_msg) ==
    IF IsBlank(raw_msg)
    THEN ctx
    ELSE IF JsonLoads(raw_msg).ok
    THEN HandleServerMessage([ctx EXCEPT !.sub = i], JsonLoads(raw_msg).value)
    ELSE [ctx EXCEPT !.raised = "JSONDecodeError"]

\* The body of the loop over the sub-messages of one read: blanks are
\* discarded, a decode failure is logged and skipped, a decoded object is
\* passed to the message callback, which is awaited.
OnSubMessage(ctx, i, raw_msg) ==
    IF IsBlank(raw_msg)
    THEN ctx
    ELSE IF JsonLoads(raw_msg).ok
    THEN HandleServerMessage([ctx EXCEPT !.sub = i], JsonLoads(raw_msg).value)
    ELSE ctx

\* for raw_msg in raw_messages
RECURSIVE ForEachSubMessage(_, _, _)
ForEachSubMessage(ctx, raw_messages, i) ==
    IF i > Len(raw_messages) \/ ctx.raised # None
    THEN ctx
    ELSE ForEachSubMessage(OnSubMessage(ctx, i, raw_messages[i]), raw_messages,
                           i + 1)

\* One turn of "while running": a read is split and processed; a fault in the
\* turn ends the loop; so does the flag found false when the turn is over.
ReadLoopTurn(ctx, raw_messages) ==
    LET done == [ForEachSubMessage(ctx, raw_messages, 1) EXCEPT !.sub = 0]
    IN  IF done.raised # None
        THEN ReadLoopEnds([done EXCEPT !.raised = None])
        ELSE IF done.running THEN done ELSE ReadLoopEnds(done)

----------------------------------------------------------------------------
(* Inputs *)

Entry(chat_id, sid) ==
    (IF chat_id = None THEN EmptyDict ELSE "chatId" :> chat_id) @@
    (IF sid = None THEN EmptyDict ELSE "sessionId" :> sid)

\* Entries of a "sessions" list: every chat with every session, and entries
\* that lack a chatId, a sessionId or both.
SessionEntries ==
    {Entry(c, s) : c \in ChatIds \cup {None}, s \in SessionIds \cup {None}}

SessionLists == UNION {[1..n -> SessionEntries] : n \in 0..MaxSessions}

MsgIdFields ==
    {EmptyDict, "messageId" :> "m1", "id" :> "m2",
     ("messageId" :> "m1") @@ ("id" :> "m2")}

SessionsPayloads ==
    {"$type" :> "chatsSessionsUpdated"} \cup
    {("$type" :> "chatsSessionsUpdated") @@ ("sessions" :> ss) : ss \in SessionLists}

ChatStartedPayloads ==
    {("$type" :> "chatStarted") @@ Entry(c, s) :
        c \in ChatIds \cup {None}, s \in SessionIds \cup {None}}

TrackedPayloads ==
    {("$type" :> t) @@ m :
        t \in {"message", "update", "replyStart", "speechPlaybackStart"},
        m \in MsgIdFields}

\* "appTrigger" stands for a "$type" the client does not know.
OtherPayloads ==
    {("$type" :> t) @@ m :
        t \in {"welcome", "replyGenerating", "replyEnd", "speechPlaybackComplete",
               "interruptSpeech", "appTrigger"},
        m \in {EmptyDict, "messageId" :> "m2"}}

ErrorPayloads ==
    {"$type" :> "error",
     ("$type" :> "error") @@ ("message" :> "Chat session already exists"),
     ("$type" :> "error") @@
        ("message" :> "Error: Chat session already exists for this chat"),
     ("$type" :> "error") @@ ("message" :> "boom")}

UntypedPayloads ==
    {EmptyDict, "messageId" :> "m2", "id" :> "m2", "$type" :> "",
     ("$type" :> "") @@ ("messageId" :> "m2")}

Payloads ==
    SessionsPayloads \cup ChatStartedPayloads \cup TrackedPayloads \cup
    OtherPayloads \cup ErrorPayloads \cup UntypedPayloads

InvocationIdFields == {EmptyDict, "invocationId" :> "i1"}

\* Every payload arrives without an invocation id; every payload but the
\* session lists also arrives with one.
ReceiveMessageFrames ==
    {("type" :> 1) @@ ("target" :> "ReceiveMessage") @@ ("arguments" :> <<p>>) :
        p \in Payloads} \cup
    {("type" :> 1) @@ ("target" :> "ReceiveMessage") @@
     ("invocationId" :> "i1") @@ ("arguments" :> <<p>>) :
        p \in Payloads \ SessionsPayloads}

OtherFrames ==
    {"type" :> 6, "type" :> 7, "type" :> 2,
     ("type" :> 1) @@ ("target" :> "ReceiveMessage"),
     ("type" :> 1) @@ ("target" :> "ReceiveMessage") @@ ("arguments" :> <<>>),
     ("type" :> 1) @@ ("target" :> "Other") @@
        ("arguments" :> <<("$type" :> "chatStarted") @@ Entry("B", "s2")>>)} \cup
    {("type" :> 3) @@ i @@ e :
        i \in InvocationIdFields,
        e \in {EmptyDict, "error" :> "boom", "error" :> "", "result" :> "r1"}}

Frames == ReceiveMessageFrames \cup OtherFrames

\* Optional session ids a caller passes: none, the empty string, a session.
SessionIdArgs == {None, "", "s1"}

\* Required session ids (annotated str) a caller passes.
RequiredSessionIdArgs == {"", "s1"}

\* Most handlers registered on one client.
MaxHandlers == 2

\* Most sub-messages in one socket read.
MaxRead == 3

\* Handlers an application registers: a plain function, a coroutine function,
\* and a plain function that raises.
Handlers ==
    {[id |-> "f", is_async |-> FALSE, raises |-> FALSE, registers |-> None],
     [id |-> "g", is_async |-> TRUE, raises |-> FALSE, registers |-> None],
     [id |-> "h", is_async |-> FALSE, raises |-> TRUE, registers |-> None]}

\* Event names the application registers handlers for.
HandledEvents == {"message", "ready"}

\* Frames the server sends through the read loop.
LoopFrames ==
    {("type" :> 1) @@ ("target" :> "ReceiveMessage") @@
        ("arguments" :> <<("$type" :> "message") @@ ("text" :> "hi")>>),
     ("type" :> 1) @@ ("target" :> "ReceiveMessage") @@
        ("arguments" :> <<("$type" :> "chatStarted") @@ Entry("A", "s1")>>),
     "type" :> 7}

\* The pieces a socket read splits into: an empty piece, text that is not
\* JSON, and the JSON text of a frame.
RawMessages ==
    {[text |-> "", value |-> None], [text |-> "{oops", value |-> None]} \cup
    {[text |-> "json", value |-> f] : f \in LoopFrames}

SocketReads == UNION {[1..n -> RawMessages] : n \in 1..MaxRead}

\* Number of handlers registered in cbs.
RECURSIVE CountHandlers(_, _)
CountHandlers(cbs, names) ==
    IF names = {}
    THEN 0
    ELSE LET name == CHOOSE x \in names : TRUE
         IN  Len(cbs[name]) + CountHandlers(cbs, names \ {name})

----------------------------------------------------------------------------
(* Actions *)

Op(kind, name, message, session_id_arg, message_id_arg) ==
    [kind |-> kind, name |-> name, message |-> message,
     session_id |-> session_id_arg, message_id |-> message_id_arg]

Idle == Op("idle", "", EmptyDict, None, None)

Effect(ctx, o) ==
    LET done == RunTasks(ctx)
    IN  /\ op = Idle
        /\ session_id' = done.st.session_id
        /\ active_chat_id' = done.st.active_chat_id
        /\ is_thinking' = done.st.is_thinking
        /\ is_speaking' = done.st.is_speaking
        /\ last_message_id' = done.st.last_message_id
        /\ running' = done.running
        /\ callbacks' = done.callbacks
        /\ loop' = done.loop
        /\ op' = o
        /\ pre' = [st |-> SessionState, running |-> running,
                   callbacks |-> callbacks, loop |-> loop]
        /\ sent' = done.sent
        /\ emitted' = done.emitted
        /\ invoked' = done.invoked
        /\ written' = done.written
        /\ closed' = done.closed
        /\ raised' = done.raised

\* An operation of Spec or LoopSpec: the socket's history is not kept.
Step(ctx, o) ==
    Effect(ctx, o) /\ UNCHANGED <<wire, subscribed, suspended, legacy_chat_id>>

Init ==
    /\ session_id = None
    /\ active_chat_id = None
    /\ is_thinking = FALSE
    /\ is_speaking = FALSE
    /\ last_message_id = None
    /\ running = FALSE
    /\ callbacks = EmptyDict
    /\ loop = "none"
    /\ op = Idle
    /\ pre = [st |-> InitState, running |-> FALSE, callbacks |-> EmptyDict,
              loop |-> "none"]
    /\ sent = <<>>
    /\ emitted = <<>>
    /\ invoked = <<>>
    /\ written = <<>>
    /\ closed = 0
    /\ raised = None
    /\ wire = <<>>
    /\ subscribed = {}
    /\ suspended = <<>>
    /\ legacy_chat_id = None

\* An inbound frame reaches _handle_server_message.
Receive ==
    \E message \in Frames, w \in BOOLEAN :
        Step(HandleServerMessage(Ctx0(w), message),
             Op("frame", "_handle_server_message", message, None, None))

\* The application calls a session-scoped command.
CallSessionScoped ==
    \E name \in SessionScopedCommands, s \in SessionIdArgs, m \in {None, "m1"},
       w \in BOOLEAN :
        /\ name \in {"update_message", "delete_message"} => m = "m1"
        /\ name \notin {"update_message", "delete_message", "speech_playback_start",
                        "speech_playback_complete"} => m = None
        /\ Step(SessionScopedCommand(Ctx0(w), name, s, m),
                Op("command", name, EmptyDict, s, m))

\* The application calls subscribe_to_chat, inspect or update_context.
CallExplicitSession ==
    \E name \in ExplicitSessionCommands, s \in RequiredSessionIdArgs,
       w \in BOOLEAN :
        Step(ExplicitSessionCommand(Ctx0(w), name, s, "A"),
             Op("command", name, EmptyDict, s, None))

\* The application calls a command that addresses no session.
CallSessionFree ==
    \E name \in SessionFreeCommands, w \in BOOLEAN :
        Step(SessionFreeCommand(Ctx0(w), name),
             Op("command", name, EmptyDict, None, None))

\* The application calls connect() while no read loop is left over; the
\* socket opens or fails to.
CallConnect ==
    /\ loop = "none"
    /\ \E ok \in BOOLEAN, w \in BOOLEAN :
        Step(Connect(Ctx0(w), ok),
             Op("connect", IF ok THEN "connect" ELSE "connect_error",
                EmptyDict, None, None))

\* The application calls close().
CallClose == Step(Close(Ctx0(TRUE)), Op("close", "close", EmptyDict, None, None))

\* The read loop's read fails (read fault, peer close, socket closed).
ConnectionLost ==
    /\ loop = "reading"
    /\ Step(ReadLoopEnds(Ctx0(TRUE)), Op("lost", "_read_loop", EmptyDict, None, None))

\* The operation returns to the event loop; its record is dropped.
Return ==
    /\ op # Idle
    /\ op' = Idle
    /\ pre' = [st |-> SessionState, running |-> running, callbacks |-> callbacks,
               loop |-> loop]
    /\ sent' = <<>>
    /\ emitted' = <<>>
    /\ invoked' = <<>>
    /\ written' = <<>>
    /\ closed' = 0
    /\ raised' = None
    /\ UNCHANGED <<session_id, active_chat_id, is_thinking, is_speaking,
                   last_message_id, running, callbacks, loop, wire, subscribed,
                   suspended, legacy_chat_id>>

Next ==
    \/ Return
    \/ Receive
    \/ CallSessionScoped
    \/ CallExplicitSession
    \/ CallSessionFree
    \/ CallConnect
    \/ CallClose
    \/ ConnectionLost

Spec == Init /\ [][Next]_vars

\* The application registers a handler, directly: client.on(name, handler).
CallOn ==
    \E name \in HandledEvents, cb \in Handlers :
        /\ CountHandlers(callbacks, DOMAIN callbacks) < MaxHandlers
        /\ Step(On(Ctx0(TRUE), name, cb), Op("on", name, cb, None, None))

\* The application registers a handler with the decorator form:
\* @client.on(name) above the handler.
CallOnDecorator ==
    \E name \in HandledEvents, cb \in Handlers :
        /\ CountHandlers(callbacks, DOMAIN callbacks) < MaxHandlers
        /\ Step(Decorator(On(Ctx0(TRUE), name, NoCallback), name, cb),
                Op("on_decorator", name, cb, None, None))

\* The read loop gets one read from the socket and processes it.
ReadSocket ==
    /\ loop = "reading"
    /\ \E raw_messages \in SocketReads :
        Step(ReadLoopTurn(Ctx0(TRUE), raw_messages),
             Op("read", "_read_loop", raw_messages, None, None))

LoopNext ==
    \/ Return
    \/ CallOn
    \/ CallOnDecorator
    \/ ReadSocket
    \/ ConnectionLost
    \/ CallConnect
    \/ CallClose

LoopSpec == Init /\ [][LoopNext]_vars

\* Most units the model follows on the socket of one connection.
MaxWire == 4

\* Most sub-messages in one socket read of ConnSpec.
MaxConnRead == 2

\* What a written unit is: the handshake frame, or the command whose "$type"
\* the envelope carries.
UnitName(unit) ==
    IF unit.json = Handshake
    THEN "handshake"
    ELSE unit.json["arguments"][1]["$type"]

WireOf(units) == [k \in 1..Len(units) |-> UnitName(units[k].unit)]

\* The sessions the subscribeToChat commands among the written units name.
SubscribedBy(units) ==
    {Get(units[k].unit.json["arguments"][1], "sessionId") :
        k \in {j \in 1..Len(units) :
                  UnitName(units[j].unit) = "subscribeToChat"}}

\* Frames the server sends on a connection: the reply to authenticate, a
\* list of chat sessions, the start of a chat, and the close frame.
ConnFrames ==
    {("type" :> 1) @@ ("target" :> "ReceiveMessage") @@
        ("arguments" :> <<"$type" :> "welcome">>),
     ("type" :> 1) @@ ("target" :> "ReceiveMessage") @@
        ("arguments" :> <<("$type" :> "chatsSessionsUpdated") @@
                          ("sessions" :> <<Entry("A", "s1")>>)>>),
     ("type" :> 1) @@ ("target" :> "ReceiveMessage") @@
        ("arguments" :> <<("$type" :> "chatStarted") @@ Entry("B", "s2")>>),
     "type" :> 7}

ConnReads ==
    UNION {[1..n -> {[text |-> "json", value |-> f] : f \in ConnFrames}] :
              n \in 1..MaxConnRead}

\* An operation of ConnSpec: connect() opens a new socket, whose history
\* starts with what connect() writes; any other operation adds what it
\* writes to the history of the socket that is open.
ConnStep(ctx, o) ==
    LET units == WireOf(RunTasks(ctx).written)
    IN  /\ Len(IF o.kind = "connect" THEN units ELSE wire \o units) <= MaxWire
        /\ Effect(ctx, o)
        /\ wire' = IF o.kind = "connect" THEN units ELSE wire \o units
        /\ subscribed' = IF o.kind = "connect"
                         THEN {}
                         ELSE subscribed \cup SubscribedBy(RunTasks(ctx).written)
        /\ UNCHANGED <<suspended, legacy_chat_id>>

\* The application registers a handler for client_send: a coroutine
\* function, or a plain function that raises.
ConnOn ==
    \E cb \in {h \in Handlers : h.is_async \/ h.raises} :
        /\ CountHandlers(callbacks, DOMAIN callbacks) < MaxHandlers
        /\ ConnStep(On(Ctx0(TRUE), "client_send", cb),
                    Op("on", "client_send", cb, None, None))

\* connect(), as CallConnect.
ConnConnect ==
    /\ loop = "none"
    /\ \E ok \in BOOLEAN, w \in BOOLEAN :
        ConnStep(Connect(Ctx0(w), ok),
                 Op("connect", IF ok THEN "connect" ELSE "connect_error",
                    EmptyDict, None, None))

\* The read loop gets one read from the socket and processes it.
ConnRead ==
    /\ loop = "reading"
    /\ \E raw_messages \in ConnReads, w \in BOOLEAN :
        ConnStep(ReadLoopTurn(Ctx0(w), raw_messages),
                 Op("read", "_read_loop", raw_messages, None, None))

\* The application sends a chat message or interrupts, to the pinned session.
ConnCommand ==
    \E name \in {"send_message", "interrupt"}, w \in BOOLEAN :
        ConnStep(SessionScopedCommand(Ctx0(w), name, None, None),
                 Op("command", name, EmptyDict, None, None))

\* close(), as CallClose.
ConnClose ==
    ConnStep(Close(Ctx0(TRUE)), Op("close", "close", EmptyDict, None, None))

\* The read fails, as ConnectionLost.
ConnLost ==
    /\ loop = "reading"
    /\ ConnStep(ReadLoopEnds(Ctx0(TRUE)),
                Op("lost", "_read_loop", EmptyDict, None, None))

ConnNext ==
    \/ Return
    \/ ConnOn
    \/ ConnConnect
    \/ ConnRead
    \/ ConnCommand
    \/ ConnClose
    \/ ConnLost

ConnSpec == Init /\ [][ConnNext]_vars

\* A plausible slip: the envelope is addressed again, to the session pinned
\* when the write happens.
ResumeSendReaddressed(ctx, command) ==
    TransportSend(ctx,
        Put(command.envelope, "arguments",
            <<Put(command.envelope["arguments"][1], "sessionId",
                  ctx.st.session_id)>>))

\* "await self.transport.send(payload)" of _send_raw, reached when the
\* command goes on after its suspension: the envelope built at invocation is
\* handed to the transport.
ResumeSend(ctx, command) == TransportSend(ctx, command.envelope)

\* The first half of a session-scoped command called with no session id:
\* the target session is resolved, the message and its envelope are built
\* and the client_send event is emitted; nothing is handed to the transport
\* yet.  The envelope is the one the whole command hands over.
BeginCommand(ctx, name) ==
    LET whole == SessionScopedCommand([ctx EXCEPT !.running = FALSE], name,
                                      None, None)
    IN  [ctx |-> [whole EXCEPT !.running = ctx.running, !.sent = <<>>],
         envelopes |-> whole.sent]

\* An operation of SuspendSpec.
SuspendStep(ctx, o, commands) ==
    /\ Effect(ctx, o)
    /\ suspended' = commands
    /\ UNCHANGED <<wire, subscribed, legacy_chat_id>>

\* connect(), as CallConnect.
SuspendConnect ==
    /\ loop = "none"
    /\ \E ok \in BOOLEAN :
        SuspendStep(Connect(Ctx0(TRUE), ok),
                    Op("connect", IF ok THEN "connect" ELSE "connect_error",
                       EmptyDict, None, None),
                    suspended)

\* The read loop handles a chatStarted frame, whether or not a command is
\* suspended.
SuspendReceive ==
    \E c \in ChatIds, sid \in SessionIds :
        LET message == ("type" :> 1) @@ ("target" :> "ReceiveMessage") @@
                       ("arguments" :> <<("$type" :> "chatStarted") @@ Entry(c, sid)>>)
        IN  SuspendStep(HandleServerMessage(Ctx0(TRUE), message),
                        Op("frame", "_handle_server_message", message, None, None),
                        suspended)

\* The application calls send_message or interrupt with no session id; the
\* command is suspended before its socket write (in a client_send handler,
\* or in the write itself).  A skipped command suspends nothing.
SuspendBegin ==
    /\ suspended = <<>>
    /\ \E name \in {"send_message", "interrupt"} :
        LET begun == BeginCommand(Ctx0(TRUE), name)
        IN  SuspendStep(begun.ctx, Op("begin", name, EmptyDict, None, None),
                        [k \in 1..Len(begun.envelopes) |->
                            [name |-> name, envelope |-> begun.envelopes[k],
                             pinned |-> session_id]])

\* The suspended command goes on: its envelope is handed to the transport.
SuspendResume ==
    /\ suspended # <<>>
    /\ \E w \in BOOLEAN :
        SuspendStep(ResumeSend(Ctx0(w), Head(suspended)),
                    Op("resume", Head(suspended).name, Head(suspended), None, None),
                    Tail(suspended))

\* close(), as CallClose.
SuspendClose ==
    SuspendStep(Close(Ctx0(TRUE)), Op("close", "close", EmptyDict, None, None),
                suspended)

SuspendNext ==
    \/ Return
    \/ SuspendConnect
    \/ SuspendReceive
    \/ SuspendBegin
    \/ SuspendResume
    \/ SuspendClose

SuspendSpec == Init /\ [][SuspendNext]_vars

----------------------------------------------------------------------------
(* The older single-file client, src/voxta_client.py *)

\* The context of an operation of the older client: chat_id with the rest.
LegacyCtx0 == Ctx0(TRUE) @@ [chat_id |-> legacy_chat_id]

\* _send_json(data): the unit is handed to the socket.
LegacySendJson(ctx, data) == [ctx EXCEPT !.sent = Append(@, data)]

\* subscribe_to_chat(session_id, chat_id): both keys are always in the
\* payload, with None when the id is None.
LegacySubscribeToChat(ctx, sid, chat) ==
    LegacySendJson([ctx EXCEPT !.n = @ + 1],
        ("type" :> 1) @@ ("invocationId" :> Uuid4(ctx.n)) @@
        ("target" :> "SendMessage") @@
        ("arguments" :> <<("$type" :> "subscribeToChat") @@
                          ("sessionId" :> sid) @@ ("chatId" :> chat)>>))

\* A plausible slip: the list re-pins whenever it is not empty, as in the
\* package's client.
LegacySessionsUpdatedRepinning(ctx, payload) ==
    LET sessions == GetDefault(payload, "sessions", <<>>)
        target == PinTarget(sessions, ctx.st.active_chat_id)
        chat == Get(target, "chatId")
        pinned == [ctx EXCEPT !.chat_id = chat, !.st.active_chat_id = chat,
                              !.st.session_id = Get(target, "sessionId")]
    IN  IF sessions # <<>>
        THEN Emit(LegacySubscribeToChat(pinned, pinned.st.session_id, chat),
                  "ready", pinned.st.session_id)
        ELSE ctx

\* msg_inner_type == "chatsSessionsUpdated" (src/voxta_client.py 390-416)
LegacySessionsUpdated(ctx, payload) ==
    LET sessions == GetDefault(payload, "sessions", <<>>)
        target == PinTarget(sessions, ctx.st.active_chat_id)
        chat == Get(target, "chatId")
        pinned == [ctx EXCEPT !.chat_id = chat, !.st.active_chat_id = chat,
                              !.st.session_id =
                                  IF ~Truthy(@) THEN Get(target, "sessionId") ELSE @]
    IN  IF sessions # <<>> /\ ~Truthy(ctx.chat_id)
        THEN Emit(LegacySubscribeToChat(pinned, pinned.st.session_id, chat),
                  "ready", pinned.st.session_id)
        ELSE ctx

\* msg_inner_type == "chatStarted" (src/voxta_client.py 418-428)
LegacyChatStarted(ctx, payload) ==
    LET new_session_id == Get(payload, "sessionId")
        new_chat_id == Get(payload, "chatId")
        pinned == [ctx EXCEPT !.st.session_id = new_session_id,
                              !.chat_id = new_chat_id,
                              !.st.active_chat_id = new_chat_id]
    IN  IF Truthy(new_chat_id) /\ new_chat_id # ctx.st.active_chat_id
        THEN Emit(pinned, "ready", pinned.st.session_id)
        ELSE ctx

\* _handle_server_message of the older client, for the payloads that pin:
\* the message id is tracked, the generic event is emitted (under the
\* target's name when the payload has no "$type"), then the internal logic
\* runs.
LegacyHandleServerMessage(ctx, message) ==
    LET arguments == GetDefault(message, "arguments", <<>>)
        payload == arguments[1]
        msg_inner_type == Get(payload, "$type")
        announced == Emit(TrackMessageId(ctx, payload),
                          IF Truthy(msg_inner_type)
                          THEN msg_inner_type
                          ELSE Get(message, "target"),
                          payload)
    IN  IF message["type"] = 1 /\ arguments # <<>>
        THEN CASE msg_inner_type = "chatsSessionsUpdated" ->
                      LegacySessionsUpdated(announced, payload)
               [] msg_inner_type = "chatStarted" ->
                      LegacyChatStarted(announced, payload)
               [] OTHER -> announced
        ELSE ctx

\* Frames the older client is given: session lists, chat starts, a payload
\* with no "$type", a ping.
LegacyFrames ==
    {("type" :> 1) @@ ("target" :> "ReceiveMessage") @@ ("arguments" :> <<p>>) :
        p \in SessionsPayloads \cup ChatStartedPayloads \cup {EmptyDict}}
    \cup {"type" :> 6}

\* An inbound frame reaches the older client's _handle_server_message.
LegacyReceive ==
    \E message \in LegacyFrames :
        LET done == LegacyHandleServerMessage(LegacyCtx0, message)
        IN  /\ Effect(done, Op("legacy_frame", "_handle_server_message",
                               [frame |-> message, chat_id |-> legacy_chat_id],
                               None, None))
            /\ legacy_chat_id' = done.chat_id
            /\ UNCHANGED <<wire, subscribed, suspended>>

LegacyNext ==
    \/ Return
    \/ LegacyReceive

LegacySpec == Init /\ [][LegacyNext]_vars

----------------------------------------------------------------------------
(* What the record of the last operation says *)

\* The last operation handled a ReceiveMessage invocation with a payload.
IsReceiveMessage ==
    /\ op.kind = "frame"
    /\ op.message["type"] = 1
    /\ Get(op.message, "target") = "ReceiveMessage"
    /\ GetDefault(op.message, "arguments", <<>>) # <<>>

\* Its payload as received, and as the handlers get it (tagged with the
\* envelope's invocation id).
OpPayload == op.message["arguments"][1]
OpTaggedPayload ==
    IF "invocationId" \in DOMAIN op.message
    THEN Put(OpPayload, "invocationId", op.message["invocationId"])
    ELSE OpPayload
OpType == Get(OpPayload, "$type")
OpSessions == GetDefault(OpPayload, "sessions", <<>>)
OpChatIds == {Get(OpSessions[i], "chatId") : i \in 1..Len(OpSessions)}

IsSessionsUpdated == IsReceiveMessage /\ OpType = "chatsSessionsUpdated"
IsChatStarted == IsReceiveMessage /\ OpType = "chatStarted"

\* A chat was pinned when the last operation began.
WasPinned == Truthy(pre.st.active_chat_id)

\* A chat and its session were pinned when the last operation began.
WasPinnedWithSession == WasPinned /\ Truthy(pre.st.session_id)

ReadyEvents == SelectSeq(emitted, LAMBDA e : e.name = "ready")
SentOfType(t) == SelectSeq(sent, LAMBDA env : env["arguments"][1]["$type"] = t)

----------------------------------------------------------------------------
(* Claims *)

\* C1: a chatsSessionsUpdated payload whose list holds an entry for the
\* pinned chat leaves activeChatId as it was, wherever that entry stands and
\* whatever else the list holds.
C1_AntiHijack ==
    (IsSessionsUpdated /\ WasPinned /\ pre.st.active_chat_id \in OpChatIds)
        => active_chat_id = pre.st.active_chat_id

\* C1 witness: pinned to A, the list names B first and A second, A is kept.
C1_Witness ==
    /\ IsSessionsUpdated
    /\ pre.st.active_chat_id = "A"
    /\ Len(OpSessions) = 2
    /\ Get(OpSessions[1], "chatId") = "B"
    /\ Get(OpSessions[2], "chatId") = "A"
    /\ active_chat_id = "A"

\* C2 (as claimed): pinned, and the non-empty list does not hold the pinned
\* chat: activeChatId and sessionId are left unchanged.
C2_PinKeptWhenAbsent ==
    (IsSessionsUpdated /\ WasPinnedWithSession /\ OpSessions # <<>>
        /\ pre.st.active_chat_id \notin OpChatIds)
        => /\ active_chat_id = pre.st.active_chat_id
           /\ session_id = pre.st.session_id

\* C3 (as claimed): pinned to a chat that the list holds: no ready event is
\* emitted and the pin stays.
C3_NoNewReady ==
    (IsSessionsUpdated /\ WasPinnedWithSession
        /\ pre.st.active_chat_id \in OpChatIds)
        => /\ ReadyEvents = <<>>
           /\ active_chat_id = pre.st.active_chat_id

\* C4 (as claimed): once a chat is pinned, sessionId changes only while a
\* chatStarted payload is handled, never while a chatsSessionsUpdated one is.
C4_SessionNotRederived ==
    (WasPinnedWithSession /\ session_id # pre.st.session_id) => IsChatStarted

\* C5 (as claimed): no pin, non-empty list: the client pins to the first
\* entry, hands exactly one subscribeToChat with the entry's two ids to the
\* transport and emits ready exactly once with the entry's sessionId.
C5_PinsFirstEntry ==
    (IsSessionsUpdated /\ pre.st.active_chat_id = None /\ pre.st.session_id = None
        /\ OpSessions # <<>>)
        => /\ active_chat_id = Get(OpSessions[1], "chatId")
           /\ session_id = Get(OpSessions[1], "sessionId")
           /\ Len(sent) = 1
           /\ Len(SentOfType("subscribeToChat")) = 1
           /\ Get(sent[1]["arguments"][1], "chatId") = Get(OpSessions[1], "chatId")
           /\ Get(sent[1]["arguments"][1], "sessionId") = Get(OpSessions[1], "sessionId")
           /\ Len(ReadyEvents) = 1
           /\ ReadyEvents[1].data = Get(OpSessions[1], "sessionId")

\* C6: a chatStarted payload re-pins whatever the pin was: sessionId and
\* activeChatId are the payload's, and ready is emitted exactly once with the
\* payload's sessionId.
C6_ChatStartedRepins ==
    IsChatStarted
        => /\ session_id = Get(OpPayload, "sessionId")
           /\ active_chat_id = Get(OpPayload, "chatId")
           /\ Len(ReadyEvents) = 1
           /\ ReadyEvents[1].data = Get(OpPayload, "sessionId")

\* C6 witness: pinned to chat A with session s1, chatStarted names chat A
\* again with session s2; the session is replaced and ready(s2) is emitted.
C6_Witness ==
    /\ IsChatStarted
    /\ pre.st.active_chat_id = "A"
    /\ pre.st.session_id = "s1"
    /\ Get(OpPayload, "chatId") = "A"
    /\ session_id = "s2"
    /\ Len(ReadyEvents) = 1

\* C7: SessionState changes only while a ReceiveMessage payload is handled,
\* and sessionId / activeChatId only while that payload is chatsSessionsUpdated
\* or chatStarted; commands, other frames, close() and a lost connection leave
\* every field as it was.
C7_StateChangesOnlyOnDispatch ==
    /\ ~IsReceiveMessage => SessionState = pre.st
    /\ (session_id # pre.st.session_id \/ active_chat_id # pre.st.active_chat_id)
          => (IsSessionsUpdated \/ IsChatStarted)

\* C7 witness: close() on a running, pinned client leaves the pin in place.
C7_Witness ==
    /\ op.kind = "close"
    /\ pre.running
    /\ ~running
    /\ session_id = "s1"
    /\ active_chat_id = "A"
    /\ last_message_id = "m1"

\* The last operation was skipped: nothing sent, nothing emitted, no change.
Skipped == sent = <<>> /\ emitted = <<>> /\ SessionState = pre.st

\* C8: a session-scoped command with no explicit session id and no pinned
\* session is skipped, and so is a playback command with no message id and no
\* lastMessageId; an envelope of such a command is handed to the transport
\* only by the call that builds it, never by a later operation.
C8_UnpinnedCommandSkipped ==
    /\ (op.kind = "command" /\ op.name \in SessionScopedCommands
          /\ ~Truthy(op.session_id) /\ ~Truthy(pre.st.session_id)) => Skipped
    /\ (op.kind = "command"
          /\ op.name \in {"speech_playback_start", "speech_playback_complete"}
          /\ ~Truthy(op.message_id) /\ ~Truthy(pre.st.last_message_id)) => Skipped
    /\ \A i \in 1..Len(sent) :
          sent[i]["arguments"][1]["$type"] \in
                {TypeName(n) : n \in SessionScopedCommands}
          => /\ op.kind = "command"
             /\ op.name \in SessionScopedCommands
             /\ TypeName(op.name) = sent[i]["arguments"][1]["$type"]
             /\ Truthy(Or(op.session_id, pre.st.session_id))

\* C8 witness: send_message with no session id on an unpinned, connected
\* client hands nothing to the transport.
C8_Witness ==
    /\ op.kind = "command"
    /\ op.name = "send_message"
    /\ op.session_id = None
    /\ pre.st.session_id = None
    /\ running
    /\ sent = <<>>

\* Payload types of the commands that address a session.
SessionAddressedTypes ==
    {TypeName(n) : n \in SessionScopedCommands \cup ExplicitSessionCommands}

\* C9 (as claimed): no envelope of a session-addressed command is handed to
\* the transport with a missing or empty sessionId.
C9_NoEnvelopeWithoutSession ==
    \A i \in 1..Len(sent) :
        sent[i]["arguments"][1]["$type"] \in SessionAddressedTypes
            => Truthy(Get(sent[i]["arguments"][1], "sessionId"))

\* "$type" values the dispatch knows.
KnownTypes ==
    {EventType.WELCOME, EventType.CHATS_SESSIONS_UPDATED, EventType.CHAT_STARTED,
     EventType.MESSAGE, EventType.UPDATE, EventType.ERROR,
     EventType.REPLY_GENERATING, EventType.REPLY_START, EventType.REPLY_END,
     EventType.SPEECH_PLAYBACK_START, EventType.SPEECH_PLAYBACK_COMPLETE,
     EventType.INTERRUPT_SPEECH}

\* C10: for a ReceiveMessage payload with a "$type", exactly one event of that
\* name is emitted; it is the last emission, carries the full payload and is
\* seen with the state as the payload left it; an unknown "$type" changes no
\* state and sends nothing.
C10_GenericEventAfterUpdates ==
    (IsReceiveMessage /\ Truthy(OpType))
        => /\ {i \in 1..Len(emitted) : emitted[i].name = OpType} = {Len(emitted)}
           /\ emitted[Len(emitted)].data = OpTaggedPayload
           /\ emitted[Len(emitted)].seen = SessionState
           /\ OpType \in {"replyStart", "replyGenerating"}
                => emitted[Len(emitted)].seen.is_thinking
           /\ OpType = "chatStarted"
                => emitted[Len(emitted)].seen.session_id = Get(OpPayload, "sessionId")
           /\ OpType \notin KnownTypes => (SessionState = pre.st /\ sent = <<>>)

\* C10 witness: replyStart arrives while isThinking is false; the replyStart
\* event is emitted once and is seen with isThinking true and the new
\* lastMessageId.
C10_Witness ==
    /\ IsReceiveMessage
    /\ OpType = "replyStart"
    /\ ~pre.st.is_thinking
    /\ pre.st.last_message_id = "m2"
    /\ Len(emitted) = 1
    /\ emitted[1].name = "replyStart"
    /\ emitted[1].seen.is_thinking
    /\ emitted[1].seen.last_message_id = "m1"

----------------------------------------------------------------------------
(* What the record of a socket read says *)

\* The last operation was a turn of the read loop; its pieces.
IsRead == op.kind = "read"
ReadLen == IF IsRead THEN Len(op.message) ELSE 0

\* Piece i of the read decodes to a frame.
IsFrameAt(i) == op.message[i].text = "json"

\* Piece i decodes to a ReceiveMessage invocation whose payload has a "$type".
IsPayloadAt(i) ==
    /\ IsFrameAt(i)
    /\ op.message[i].value["type"] = 1
    /\ Get(op.message[i].value, "target") = "ReceiveMessage"
    /\ GetDefault(op.message[i].value, "arguments", <<>>) # <<>>
    /\ Truthy(Get(op.message[i].value["arguments"][1], "$type"))

PayloadTypeAt(i) == op.message[i].value["arguments"][1]["$type"]

\* Piece i decodes to a type-7 (close) frame.
IsCloseFrameAt(i) == IsFrameAt(i) /\ op.message[i].value["type"] = 7

\* The handlers invoked for the event `name` emitted while sub-message `sub`
\* was handled, in the order they were invoked.
InvokedFor(sub, name) ==
    LET sel == SelectSeq(invoked, LAMBDA v : v.sub = sub /\ v.name = name)
    IN  [k \in 1..Len(sel) |-> sel[k].cb]

\* C11: a handler that raises blocks nothing.  Whatever an operation emits,
\* every handler registered for that event is invoked, in list order, also
\* after one of them has raised; no operation of the client but a failed
\* connect raises; every payload of a socket read is emitted, also after a
\* payload whose handler raised; and a read without a close frame leaves a
\* running client running with its read loop alive.
C11_HandlerFaultIsolation ==
    /\ \A e \in 1..Len(emitted) :
          InvokedFor(emitted[e].sub, emitted[e].name)
              = Registered(pre.callbacks, emitted[e].name)
    /\ op.name # "connect_error" => raised = None
    /\ IsRead =>
          /\ \A i \in 1..ReadLen :
                IsPayloadAt(i) =>
                    \E e \in 1..Len(emitted) :
                        emitted[e].sub = i /\ emitted[e].name = PayloadTypeAt(i)
          /\ (pre.running /\ \A i \in 1..ReadLen : ~IsCloseFrameAt(i))
                => (running /\ loop = "reading")

\* C11 witness: "message" has a raising handler h registered before f; one
\* read brings two message payloads; h and f are both invoked for each and
\* the client is still running.
C11_Witness ==
    /\ IsRead
    /\ ReadLen = 2
    /\ IsPayloadAt(1) /\ PayloadTypeAt(1) = "message"
    /\ IsPayloadAt(2) /\ PayloadTypeAt(2) = "message"
    /\ Len(Registered(pre.callbacks, "message")) = 2
    /\ pre.callbacks["message"][1].raises
    /\ ~pre.callbacks["message"][2].raises
    /\ Len(invoked) = 4
    /\ invoked[1].caught /\ invoked[2].cb.id = "f"
    /\ invoked[3].caught /\ invoked[4].sub = 2
    /\ running

\* The last operation registered a handler, in either form.
IsRegistration == op.kind \in {"on", "on_decorator"}

\* The invocations the first e emissions of the last operation call for: for
\* each emission in turn, one invocation of each handler registered for its
\* name, in registration order.
RECURSIVE ExpectedInvocations(_)
ExpectedInvocations(e) ==
    IF e = 0
    THEN <<>>
    ELSE LET cbs == Registered(pre.callbacks, emitted[e].name)
         IN  ExpectedInvocations(e - 1) \o
             [k \in 1..Len(cbs) |->
                [name |-> emitted[e].name, cb |-> cbs[k], data |-> emitted[e].data,
                 seen |-> emitted[e].seen, sub |-> emitted[e].sub,
                 awaited |-> cbs[k].is_async, caught |-> cbs[k].raises]]

\* C12: a registration, direct or by decorator, appends the handler to the
\* list of its event name and leaves every other list, and the earlier
\* handlers of its own list, as they were; no other operation changes the
\* registry; and the handler invocations of an operation are, emission by
\* emission, exactly one invocation of each handler registered for the
\* emitted name, in registration order, with the emitted data, coroutine
\* functions awaited and plain functions called.
C12_EmitInRegistrationOrder ==
    /\ IsRegistration =>
          /\ callbacks[op.name] = Append(Registered(pre.callbacks, op.name), op.message)
          /\ \A name \in (DOMAIN callbacks \cup DOMAIN pre.callbacks) \ {op.name} :
                Registered(callbacks, name) = Registered(pre.callbacks, name)
          /\ emitted = <<>> /\ invoked = <<>>
    /\ ~IsRegistration => callbacks = pre.callbacks
    /\ invoked = ExpectedInvocations(Len(emitted))

\* C12 witness: "message" has the plain function f and then the coroutine
\* function g registered; a read brings a chatStarted payload and a message
\* payload; ready and chatStarted have no handler, and f then g run once each
\* for message, f called and g awaited.
C12_Witness ==
    /\ IsRead
    /\ Len(Registered(pre.callbacks, "message")) = 2
    /\ pre.callbacks["message"][1].id = "f"
    /\ pre.callbacks["message"][2].id = "g"
    /\ Len(emitted) = 3
    /\ emitted[1].name = "ready"
    /\ Len(invoked) = 2
    /\ invoked[1].name = "message" /\ invoked[1].cb.id = "f" /\ ~invoked[1].awaited
    /\ invoked[2].name = "message" /\ invoked[2].cb.id = "g" /\ invoked[2].awaited

\* The context the last operation started from.
PreCtx ==
    [st |-> pre.st, running |-> pre.running, callbacks |-> pre.callbacks,
     loop |-> pre.loop, sent |-> <<>>, emitted |-> <<>>, invoked |-> <<>>,
     written |-> <<>>, closed |-> 0, raised |-> None, n |-> 0,
     write_ok |-> TRUE, sub |-> 0, tasks |-> <<>>]

\* SessionState once the first i sub-messages of the read have been handled.
StateAfter(i) == ForEachSubMessage(PreCtx, SubSeq(op.message, 1, i), 1).st

\* C13: the sub-messages of a read are handled in arrival order, one at a
\* time: the emissions and the handler invocations of a read are ordered by
\* the position of their sub-message; every payload has its emission; and
\* what is emitted or invoked for sub-message n reads the SessionState that
\* sub-messages 1..n have produced, so nothing of sub-message n+1 has begun
\* and nothing of sub-message n is left for later.
C13_OneSubMessageAtATime ==
    IsRead =>
        /\ \A e \in 1..Len(emitted) :
              emitted[e].name # "close" =>
                  /\ emitted[e].sub \in 1..ReadLen
                  /\ emitted[e].seen = StateAfter(emitted[e].sub)
                  /\ \A d \in 1..e : emitted[d].sub <= emitted[e].sub
        /\ \A v \in 1..Len(invoked) :
              invoked[v].name # "close" =>
                  /\ invoked[v].sub \in 1..ReadLen
                  /\ invoked[v].seen = StateAfter(invoked[v].sub)
                  /\ \A u \in 1..v : invoked[u].sub <= invoked[v].sub
        /\ \A i \in 1..ReadLen :
              IsPayloadAt(i) =>
                  \E e \in 1..Len(emitted) :
                      emitted[e].sub = i /\ emitted[e].name = PayloadTypeAt(i)
        /\ SessionState = StateAfter(ReadLen)

\* C13 witness: a read brings a message payload and then a chatStarted
\* payload; the handler of message runs first and reads no pin yet, the
\* handler of ready runs after it and reads the pin.
C13_Witness ==
    /\ IsRead
    /\ ReadLen = 2
    /\ IsPayloadAt(1) /\ PayloadTypeAt(1) = "message"
    /\ IsPayloadAt(2) /\ PayloadTypeAt(2) = "chatStarted"
    /\ pre.st.session_id = None
    /\ Len(invoked) = 2
    /\ invoked[1].name = "message" /\ invoked[1].seen.session_id = None
    /\ invoked[2].name = "ready" /\ invoked[2].seen.session_id = "s1"

\* The read of the last operation with the pieces that do not decode left out.
DecodablePieces == SelectSeq(op.message, LAMBDA raw_msg : raw_msg.text = "json")

\* What the read of the last operation does with those pieces left out.
WithoutMalformed == RunTasks(ReadLoopTurn(PreCtx, DecodablePieces))

\* Names and data of a sequence of emissions.
Emissions(es) == [e \in 1..Len(es) |-> [name |-> es[e].name, data |-> es[e].data]]

\* C14: pieces of a read that are not JSON are skipped and nothing else: no
\* exception leaves the turn, the read loop does not end because of them, and
\* the emissions, SessionState, running and the loop are what the same read
\* without those pieces produces, so every valid sub-frame is dispatched, in
\* order.
C14_MalformedSkipped ==
    IsRead =>
        /\ raised = None
        /\ Emissions(emitted) = Emissions(WithoutMalformed.emitted)
        /\ SessionState = WithoutMalformed.st
        /\ running = WithoutMalformed.running
        /\ loop = WithoutMalformed.loop
        /\ \A i \in 1..ReadLen :
              IsPayloadAt(i) =>
                  \E e \in 1..Len(emitted) :
                      emitted[e].sub = i /\ emitted[e].name = PayloadTypeAt(i)
        /\ (pre.running /\ \A i \in 1..ReadLen : ~IsCloseFrameAt(i))
              => (running /\ loop = "reading" /\ closed = 0)

\* C14 witness: a read of three pieces, a message payload, text that is not
\* JSON, a chatStarted payload: message, ready and chatStarted are emitted
\* and the client is still running.
C14_Witness ==
    /\ IsRead
    /\ ReadLen = 3
    /\ IsPayloadAt(1) /\ PayloadTypeAt(1) = "message"
    /\ op.message[2].text = "{oops"
    /\ IsPayloadAt(3) /\ PayloadTypeAt(3) = "chatStarted"
    /\ Len(emitted) = 3
    /\ emitted[1].name = "message" /\ emitted[1].sub = 1
    /\ emitted[3].name = "chatStarted" /\ emitted[3].sub = 3
    /\ session_id = "s1"
    /\ running /\ loop = "reading"

\* The read loop ended during the last operation.
LoopEnded == pre.loop = "reading" /\ loop = "none"

CloseEvents == SelectSeq(emitted, LAMBDA e : e.name = "close")

\* C15: when the read loop ends, on a read fault or peer close or because it
\* finds running false after a turn, running is false and the close
\* callback has been called exactly once (and so the close event emitted
\* once); an operation in which the loop does not end never calls it; a turn
\* that leaves running false ends the loop; and with no loop, running is
\* false.
C15_CloseCallbackOnce ==
    /\ LoopEnded => (~running /\ closed = 1 /\ Len(CloseEvents) = 1)
    /\ ~LoopEnded => (closed = 0 /\ CloseEvents = <<>>)
    /\ (IsRead \/ op.kind = "lost") => (loop = "reading" <=> running)
    /\ loop = "none" => ~running

\* C15 witness: a running client reads a message payload and a close frame in
\* one read: the loop ends, running is false, the close callback ran once.
C15_Witness ==
    /\ IsRead
    /\ pre.running
    /\ ReadLen = 2
    /\ IsPayloadAt(1)
    /\ IsCloseFrameAt(2)
    /\ LoopEnded
    /\ ~running
    /\ closed = 1

\* The units the last operation wrote to the socket.
WrittenUnits == [k \in 1..Len(written) |-> written[k].unit.json]

\* C16: a connect whose socket fails to open raises the transport's
\* connection error, leaves running false, starts no read loop, and hands no
\* authenticate (nor anything else) to the transport, emits nothing and
\* writes nothing; SessionState stays.  No other operation raises.
C16_FailedConnect ==
    /\ op.name = "connect_error" =>
          /\ raised = "VoxtaConnectionError"
          /\ ~running
          /\ loop = "none"
          /\ sent = <<>> /\ written = <<>> /\ emitted = <<>>
          /\ SessionState = pre.st
    /\ op.name # "connect_error" => raised = None
    /\ op.name = "connect" =>
          /\ Len(sent) = 1
          /\ sent[1]["arguments"][1]["$type"] = "authenticate"

\* C16 witness: a client that was connected and pinned before tries to
\* connect again and the socket does not open.
C16_Witness ==
    /\ op.name = "connect_error"
    /\ session_id = "s1"
    /\ raised = "VoxtaConnectionError"
    /\ ~running
    /\ sent = <<>>

\* A write of the last operation failed.
WriteFailed == \E k \in 1..Len(written) : ~written[k].ok

\* C17: a socket write that fails raises nothing, leaves running false and is
\* the last write of the operation: the unit is not written a second time
\* and nothing is written after it.  The operation itself runs to its end: a
\* command has announced its envelope and handed it over once, a
\* chatsSessionsUpdated payload whose subscribeToChat could not be written
\* still pins and emits ready.
C17_WriteFailure ==
    /\ \A k \in 1..Len(written) :
          ~written[k].ok =>
              /\ raised = None
              /\ ~running
              /\ k = Len(written)
              /\ \A j \in 1..(k - 1) : written[j].unit # written[k].unit
    /\ (WriteFailed /\ op.kind = "command") => (Len(sent) = 1 /\ Len(emitted) = 1)
    /\ (WriteFailed /\ IsSessionsUpdated) =>
          (Len(ReadyEvents) = 1 /\ session_id = ReadyEvents[1].data)
    /\ (pre.running /\ ~running /\ op.kind = "command") => WriteFailed

\* C17 witness: send_message on a running, pinned client; the write fails;
\* nothing is raised, running is false, the envelope was written once.
C17_Witness ==
    /\ op.kind = "command"
    /\ op.name = "send_message"
    /\ pre.running
    /\ Len(sent) = 1
    /\ Len(written) = 1
    /\ ~written[1].ok
    /\ raised = None
    /\ ~running

\* C18: an operation that starts on a client that is not connected, and is
\* not a connect, writes nothing to the socket, raises nothing and leaves the
\* client not connected, whatever it hands to Transport.send; and nothing is
\* kept for later: every unit an operation writes is the handshake of its own
\* connect or an envelope it handed over itself, each at most once, so a
\* successful connect writes the handshake and its authenticate and nothing
\* else.
C18_NoWriteWhenNotConnected ==
    /\ (~pre.running /\ op.kind # "connect") =>
          (written = <<>> /\ raised = None /\ ~running)
    /\ Len(written) <= Len(sent) + (IF op.name = "connect" THEN 1 ELSE 0)
    /\ \A k \in 1..Len(written) :
          \/ op.name = "connect" /\ k = 1 /\ WrittenUnits[k] = Handshake
          \/ \E i \in 1..Len(sent) : sent[i] = WrittenUnits[k]
    /\ op.name = "connect" =>
          /\ Len(written) = 2
          /\ WrittenUnits[1] = Handshake
          /\ WrittenUnits[2] = sent[1]
          /\ sent[1]["arguments"][1]["$type"] = "authenticate"

\* C18 witness: send_message on a pinned client that is not connected: the
\* envelope is handed to Transport.send and nothing is written.
C18_Witness ==
    /\ op.kind = "command"
    /\ op.name = "send_message"
    /\ ~pre.running
    /\ pre.st.session_id = "s1"
    /\ Len(sent) = 1
    /\ written = <<>>
    /\ raised = None

\* C19: close() never raises and always leaves running false; it sends,
\* writes and emits nothing and changes neither SessionState nor the
\* registry; on a client that is not running (never connected, or closed
\* before) it changes nothing at all.
C19_CloseIdempotent ==
    op.kind = "close" =>
        /\ raised = None
        /\ ~running
        /\ sent = <<>> /\ written = <<>> /\ emitted = <<>> /\ closed = 0
        /\ SessionState = pre.st
        /\ callbacks = pre.callbacks
        /\ loop = pre.loop
        /\ ~pre.running => running = pre.running

\* C19 witness: close() on a client that was never connected.
C19_Witness ==
    /\ op.kind = "close"
    /\ pre.loop = "none"
    /\ pre.st = InitState
    /\ ~pre.running
    /\ ~running
    /\ raised = None

\* C20: running turns true only in a successful connect(), and a read loop
\* starts only there; close(), the end of the read loop, a failed write and a
\* type-7 frame leave running false, and no operation but connect() turns it
\* true again.
C20_NoAutomaticReconnection ==
    /\ (~pre.running /\ running) => op.name = "connect"
    /\ (pre.loop = "none" /\ loop = "reading") => op.name = "connect"
    /\ op.kind \in {"close", "lost"} => ~running
    /\ (op.kind = "frame" /\ op.message["type"] = 7) => ~running
    /\ WriteFailed => ~running
    /\ op.name = "connect_error" => ~running

\* C20 witness: the read loop of a running client ends on a read fault; the
\* close event is emitted and the client stays not running.
C20_Witness ==
    /\ op.kind = "lost"
    /\ pre.running
    /\ ~running
    /\ loop = "none"
    /\ Len(emitted) = 1
    /\ emitted[1].name = "close"
    /\ session_id = "s1"

\* The events emitted, and the handlers invoked, while sub-message i of the
\* read was handled.
EmittedAt(i) == SelectSeq(emitted, LAMBDA e : e.sub = i)
InvokedAt(i) == SelectSeq(invoked, LAMBDA v : v.sub = i)

\* C21 (as claimed): a type-7 frame turns running false without raising,
\* emits no event and changes no SessionState field itself, and nothing that
\* arrives after it, later sub-messages of the same read included, is
\* dispatched to handlers or changes SessionState.
C21_CloseFrameStopsProcessing ==
    IsRead =>
        \A i \in 1..ReadLen :
            IsCloseFrameAt(i) =>
                /\ raised = None
                /\ ~running
                /\ EmittedAt(i) = <<>>
                /\ StateAfter(i) = StateAfter(i - 1)
                /\ SessionState = StateAfter(i)
                /\ \A j \in (i + 1)..ReadLen :
                      EmittedAt(j) = <<>> /\ InvokedAt(j) = <<>>

\* C21, the part that holds: the frame itself turns running false, raises
\* nothing, emits nothing and changes no field; the loop ends with the turn.
C21_CloseFrameItself ==
    IsRead =>
        \A i \in 1..ReadLen :
            IsCloseFrameAt(i) =>
                /\ raised = None
                /\ ~running
                /\ loop = "none"
                /\ EmittedAt(i) = <<>>
                /\ StateAfter(i) = StateAfter(i - 1)

\* The last operation handled a type-3 (completion) frame.
IsCompletion == op.kind = "frame" /\ op.message["type"] = 3

\* C22: a completion frame has exactly one event emitted: error, carrying the
\* frame's invocation id and error, when the frame has an error, completion
\* otherwise; no SessionState field changes, nothing is handed to the
\* transport, running stays as it was and nothing is raised.
C22_CompletionObservational ==
    IsCompletion =>
        /\ Len(emitted) = 1
        /\ emitted[1].name =
              (IF Truthy(Get(op.message, "error")) THEN "error" ELSE "completion")
        /\ emitted[1].data["invocationId"] = Get(op.message, "invocationId")
        /\ emitted[1].data["error"] = Get(op.message, "error")
        /\ emitted[1].data["result"] = Get(op.message, "result")
        /\ SessionState = pre.st
        /\ sent = <<>>
        /\ written = <<>>
        /\ running = pre.running
        /\ raised = None

\* C22 witness: a completion with invocation id i1 and error "boom", on a
\* pinned and connected client, is announced as one error event.
C22_Witness ==
    /\ IsCompletion
    /\ Get(op.message, "error") = "boom"
    /\ pre.running
    /\ pre.st.session_id = "s1"
    /\ Len(emitted) = 1
    /\ emitted[1].name = "error"
    /\ emitted[1].data["invocationId"] = "i1"
    /\ emitted[1].data["error"] = "boom"

\* C22, the other case: a completion without an error is announced as one
\* completion event.
C22_CompletionReached ==
    /\ IsCompletion
    /\ Get(op.message, "result") = "r1"
    /\ Len(emitted) = 1
    /\ emitted[1].name = "completion"

\* The last operation handled a server error payload.
IsErrorPayload == IsReceiveMessage /\ OpType = "error"

\* C23 (as claimed): an error payload whose message contains "Chat session
\* already exists" is passed to no handler, and every other error payload is
\* emitted as an error event exactly once.
C23_BenignErrorSuppressed ==
    IsErrorPayload =>
        IF ContainsAlreadyExists(GetDefault(OpPayload, "message", ""))
        THEN emitted = <<>>
        ELSE /\ Len(emitted) = 1
             /\ emitted[1].name = "error"
             /\ emitted[1].data = OpTaggedPayload

\* C23, the part that holds: every error payload, the benign one included,
\* is emitted as an error event exactly once and changes nothing else.
C23_EveryErrorSurfaced ==
    IsErrorPayload =>
        /\ Len(emitted) = 1
        /\ emitted[1].name = "error"
        /\ emitted[1].data = OpTaggedPayload
        /\ sent = <<>>
        /\ SessionState = pre.st

\* The last operation handled a ping, a frame of a type the client does not
\* know, or an invocation whose target is not ReceiveMessage.
IsIgnoredFrame ==
    /\ op.kind = "frame"
    /\ \/ op.message["type"] = 6
       \/ op.message["type"] \notin {1, 3, 6, 7}
       \/ op.message["type"] = 1 /\ Get(op.message, "target") # "ReceiveMessage"

\* C24: a ping, a frame of an unknown type and an invocation of another
\* target are ignored: no SessionState field changes, no event is emitted,
\* nothing is sent or written, running stays as it was, nothing is raised.
C24_IgnoredFrames ==
    IsIgnoredFrame =>
        /\ SessionState = pre.st
        /\ emitted = <<>>
        /\ invoked = <<>>
        /\ sent = <<>>
        /\ written = <<>>
        /\ running = pre.running
        /\ raised = None

\* C24 witness: an invocation of target "Other" that carries a chatStarted
\* payload for chat B reaches a connected client pinned to chat A; the pin
\* stays.
C24_Witness ==
    /\ IsIgnoredFrame
    /\ op.message["type"] = 1
    /\ Get(op.message["arguments"][1], "chatId") = "B"
    /\ pre.running
    /\ running
    /\ active_chat_id = "A"
    /\ session_id = "s1"
    /\ emitted = <<>>

\* C24, the other cases: a ping and a frame of unknown type reach a connected
\* client.
C24_PingReached == IsIgnoredFrame /\ op.message["type"] = 6 /\ running
C24_UnknownTypeReached == IsIgnoredFrame /\ op.message["type"] = 2 /\ running

\* The last operation handled a ReceiveMessage payload with no "$type".
IsUntypedPayload == IsReceiveMessage /\ ~Truthy(OpType)

TrackedTypes == {"message", "update", "replyStart", "speechPlaybackStart"}

\* The message id the payload of the last operation carries: messageId, or
\* id when there is no messageId.
OpMessageId == Or(Get(OpPayload, "messageId"), Get(OpPayload, "id"))

\* The last operation handled a payload of a tracked "$type" with an id.
IsTrackedWithId ==
    IsReceiveMessage /\ OpType \in TrackedTypes /\ Truthy(OpMessageId)

\* C26: lastMessageId changes only while a payload of "$type" message,
\* update, replyStart or speechPlaybackStart that carries a message id is
\* handled, and after such a payload it is that payload's id; nothing else,
\* a payload of another "$type" with a messageId included, changes it.
C26_LastMessageId ==
    /\ IsTrackedWithId => last_message_id = OpMessageId
    /\ ~IsTrackedWithId => last_message_id = pre.st.last_message_id

\* C26 witness: lastMessageId is m1 and an update payload with id m2 arrives;
\* lastMessageId becomes m2.
C26_Witness ==
    /\ IsTrackedWithId
    /\ OpType = "update"
    /\ pre.st.last_message_id = "m1"
    /\ OpMessageId = "m2"
    /\ last_message_id = "m2"

\* C26, the other case: lastMessageId is m1 and a replyEnd payload with
\* messageId m2 arrives; lastMessageId stays m1.
C26_UntrackedReached ==
    /\ IsReceiveMessage
    /\ OpType = "replyEnd"
    /\ Get(OpPayload, "messageId") = "m2"
    /\ pre.st.last_message_id = "m1"
    /\ last_message_id = "m1"

\* The pin: the session and the chat the client follows.
Pin(st) == <<st.session_id, st.active_chat_id>>

\* C27: after a replyGenerating or replyStart payload isThinking is true,
\* after a replyEnd payload it is false (so replyStart followed by replyEnd
\* ends with isThinking false); the three leave isSpeaking and the pin as
\* they were.
C27_IsThinking ==
    /\ (IsReceiveMessage /\ OpType \in {"replyGenerating", "replyStart"})
          => is_thinking
    /\ (IsReceiveMessage /\ OpType = "replyEnd") => ~is_thinking
    /\ (IsReceiveMessage /\ OpType \in {"replyGenerating", "replyStart", "replyEnd"})
          => /\ is_speaking = pre.st.is_speaking
             /\ Pin(SessionState) = Pin(pre.st)
             /\ raised = None

\* C27 witness: replyEnd reaches a pinned client that is thinking (a
\* replyStart or replyGenerating was handled before) and speaking; thinking
\* is cleared, speaking and the pin stay.
C27_Witness ==
    /\ IsReceiveMessage
    /\ OpType = "replyEnd"
    /\ pre.st.is_thinking
    /\ pre.st.is_speaking
    /\ ~is_thinking
    /\ is_speaking
    /\ session_id = "s1"
    /\ active_chat_id = "A"

\* C27, the other case: replyStart reaches a client that is not thinking.
C27_ReplyStartReached ==
    /\ IsReceiveMessage
    /\ OpType = "replyStart"
    /\ ~pre.st.is_thinking
    /\ is_thinking

\* The last operation handled an interruptSpeech payload.
IsInterruptSpeech == IsReceiveMessage /\ OpType = "interruptSpeech"

\* C28: after speechPlaybackStart isSpeaking is true; after
\* speechPlaybackComplete or interruptSpeech it is false; interruptSpeech
\* also leaves isThinking false, whatever the two flags were, and
\* speechPlaybackComplete leaves isThinking as it was.
C28_IsSpeaking ==
    /\ (IsReceiveMessage /\ OpType = "speechPlaybackStart") => is_speaking
    /\ (IsReceiveMessage /\ OpType = "speechPlaybackComplete")
          => ~is_speaking /\ is_thinking = pre.st.is_thinking
    /\ IsInterruptSpeech => ~is_speaking /\ ~is_thinking

\* C28 witness: interruptSpeech reaches a client that is thinking and
\* speaking; both flags are cleared.
C28_Witness ==
    /\ IsInterruptSpeech
    /\ pre.st.is_thinking
    /\ pre.st.is_speaking
    /\ ~is_thinking
    /\ ~is_speaking

\* C28, the other prior flag combinations of interruptSpeech, and
\* speechPlaybackComplete on a client that is thinking.
C28_FromThinkingOnly ==
    IsInterruptSpeech /\ pre.st.is_thinking /\ ~pre.st.is_speaking
C28_FromSpeakingOnly ==
    IsInterruptSpeech /\ ~pre.st.is_thinking /\ pre.st.is_speaking
C28_FromNeither ==
    IsInterruptSpeech /\ ~pre.st.is_thinking /\ ~pre.st.is_speaking
C28_CompleteKeepsThinking ==
    /\ IsReceiveMessage
    /\ OpType = "speechPlaybackComplete"
    /\ pre.st.is_thinking
    /\ pre.st.is_speaking
    /\ is_thinking
    /\ ~is_speaking

\* How many times the unit `name` stands in the history of the socket.
RECURSIVE Count(_, _)
Count(seq, name) ==
    IF seq = <<>>
    THEN 0
    ELSE (IF Head(seq) = name THEN 1 ELSE 0) + Count(Tail(seq), name)

\* A welcome payload is among the sub-messages of the last read.
WelcomeRead ==
    IsRead /\ \E i \in 1..ReadLen : IsPayloadAt(i) /\ PayloadTypeAt(i) = "welcome"

\* C29 (as claimed): registerApp is written at most once on a connection: the
\* first welcome has it sent and further welcome payloads do not.
C29_RegisterAppOnce == Count(wire, "registerApp") <= 1

\* C29, the part that holds: a read that brings a welcome payload to a
\* connected client has registerApp sent.
C29_WelcomeRegisters ==
    (WelcomeRead /\ IsPayloadAt(1) /\ PayloadTypeAt(1) = "welcome")
        => Len(SentOfType("registerApp")) >= 1

\* C30: a successful connect() writes the handshake frame first and the
\* authenticate command second, and nothing else; on every connection the
\* handshake is the first unit written, authenticate the second, and neither
\* is written again while the connection lasts; a connected client has
\* written both.
C30_HandshakeThenAuthenticate ==
    /\ (op.kind = "connect" /\ op.name = "connect")
          => /\ Len(written) = 2
             /\ WrittenUnits[1] = Handshake
             /\ UnitName(written[2].unit) = "authenticate"
             /\ wire = <<"handshake", "authenticate">>
    /\ wire # <<>> => wire[1] = "handshake"
    /\ Len(wire) >= 2 => wire[2] = "authenticate"
    /\ Count(wire, "handshake") <= 1
    /\ Count(wire, "authenticate") <= 1
    /\ running => Len(wire) >= 2

\* C30 witness: a connection on which a welcome and a list of sessions have
\* been handled: handshake, authenticate, registerApp and subscribeToChat
\* were written, in that order, and the client is still connected.
C30_Witness ==
    /\ running
    /\ wire = <<"handshake", "authenticate", "registerApp", "subscribeToChat">>

\* C30, a second connection: connect() after the first connection was lost
\* writes the handshake and authenticate again, once each.
C30_Reconnected ==
    /\ op.kind = "connect"
    /\ op.name = "connect"
    /\ session_id = "s1"
    /\ wire = <<"handshake", "authenticate">>

\* C31 (as claimed): a ready event is emitted only on a connection on which
\* authenticate has been written and a subscribeToChat for the event's
\* session has been written.
C31_ReadyAfterSubscribe ==
    \A k \in 1..Len(emitted) :
        emitted[k].name = "ready"
            => /\ Count(wire, "authenticate") >= 1
               /\ emitted[k].data \in subscribed

\* C31, the part that holds: a ready event emitted while a
\* chatsSessionsUpdated payload is handled comes with a subscribeToChat for
\* its session handed to the transport in the same operation (written if the
\* transport is still connected).
C31_ReadyOfSessionsUpdated ==
    \A k \in 1..Len(emitted) :
        (emitted[k].name = "ready" /\ emitted[k].sub > 0
            /\ PayloadTypeAt(emitted[k].sub) = "chatsSessionsUpdated")
            => \E j \in 1..Len(sent) :
                  /\ sent[j]["arguments"][1]["$type"] = "subscribeToChat"
                  /\ Get(sent[j]["arguments"][1], "sessionId") = emitted[k].data

\* What send_message("..."), called with no session id by a handler that
\* reads the SessionState st, hands to the transport.
SentFromHandler(st) ==
    SessionScopedCommand([PreCtx EXCEPT !.st = st], "send_message", None, None).sent

\* C32 (as claimed): when the handlers of ready(x) run a session is pinned
\* and sessionId is x, and send_message called by such a handler with no
\* session id is sent, once, with sessionId x.
C32_ReadyHandlerState ==
    \A k \in 1..Len(emitted) :
        emitted[k].name = "ready"
            => /\ Truthy(emitted[k].seen.session_id)
               /\ emitted[k].seen.session_id = emitted[k].data
               /\ Len(SentFromHandler(emitted[k].seen)) = 1
               /\ SentFromHandler(emitted[k].seen)[1]["arguments"][1]["sessionId"]
                     = emitted[k].data

\* C32, the part that holds: the handlers of ready(x) read sessionId = x, and
\* when x is a session id the command is sent with it.
C32_ReadyHandlerReadsX ==
    \A k \in 1..Len(emitted) :
        emitted[k].name = "ready"
            => /\ emitted[k].seen.session_id = emitted[k].data
               /\ Truthy(emitted[k].data)
                    => /\ Len(SentFromHandler(emitted[k].seen)) = 1
                       /\ SentFromHandler(emitted[k].seen)[1]["arguments"][1]["sessionId"]
                             = emitted[k].data

\* The last operation was a session-scoped command called with an explicit
\* session id while another session was pinned.
IsExplicitOverPin ==
    /\ op.kind = "command"
    /\ op.name \in SessionScopedCommands
    /\ Truthy(op.session_id)
    /\ Truthy(pre.st.session_id)
    /\ pre.st.session_id # op.session_id

\* C33: a session-scoped command called with the explicit session id E while
\* pinned to another session P is sent with sessionId E (once; the playback
\* commands only when a message id is at hand), and the pin is P afterwards.
C33_ExplicitSessionWins ==
    IsExplicitOverPin =>
        /\ \A i \in 1..Len(sent) :
              sent[i]["arguments"][1]["sessionId"] = op.session_id
        /\ Len(sent) <= 1
        /\ (op.name \notin {"speech_playback_start", "speech_playback_complete"}
              \/ Truthy(op.message_id) \/ Truthy(pre.st.last_message_id))
              => Len(sent) = 1
        /\ SessionState = pre.st

\* C33 witness: pinned to chat B / session s2, send_message is called for
\* session s1; the envelope carries s1 and the pin is still s2.
C33_Witness ==
    /\ IsExplicitOverPin
    /\ op.name = "send_message"
    /\ op.session_id = "s1"
    /\ pre.st.session_id = "s2"
    /\ Len(sent) = 1
    /\ sent[1]["arguments"][1]["sessionId"] = "s1"
    /\ session_id = "s2"
    /\ active_chat_id = "B"

\* The last operation was the second half of a suspended command.
IsResume == op.kind = "resume"

\* C34: a command called with no session id while pinned to P, and suspended
\* before its socket write, hands to the transport the envelope built when
\* it was called: it carries sessionId P whatever the pin has become, it is
\* handed over once and, on a connected transport, written once; going on
\* changes no SessionState field.
C34_TargetResolvedAtInvocation ==
    /\ (op.kind = "begin" /\ Truthy(pre.st.session_id))
          => /\ Len(suspended) = 1
             /\ suspended[1].envelope["arguments"][1]["sessionId"] = pre.st.session_id
             /\ sent = <<>>
             /\ written = <<>>
    /\ IsResume
          => /\ Len(sent) = 1
             /\ sent[1] = op.message.envelope
             /\ sent[1]["arguments"][1]["sessionId"] = op.message.pinned
             /\ pre.running => /\ Len(written) = 1
                               /\ written[1].unit.json = op.message.envelope
             /\ ~pre.running => written = <<>>
             /\ SessionState = pre.st
             /\ suspended = <<>>

\* C34 witness: send_message was called while pinned to s1, the read loop
\* re-pinned to s2 while it was suspended, and the envelope written on the
\* connected socket carries s1.
C34_Witness ==
    /\ IsResume
    /\ op.name = "send_message"
    /\ op.message.pinned = "s1"
    /\ session_id = "s2"
    /\ pre.running
    /\ Len(written) = 1
    /\ written[1].unit.json["arguments"][1]["sessionId"] = "s1"

\* The client_send events of the last operation, in order.
ClientSends == SelectSeq(emitted, LAMBDA e : e.name = "client_send")

\* The last operation was a command that is not skipped: send_message or
\* interrupt on a pinned client, or the authenticate of a successful connect.
IsCommandNotSkipped ==
    \/ op.kind = "command" /\ Truthy(pre.st.session_id)
    \/ op.kind = "connect" /\ op.name = "connect"

\* C35: every envelope handed to Transport.send was announced just before by
\* one client_send event that carries the envelope's payload tagged with its
\* invocation id, and every client_send event is followed by the hand-over,
\* connected or not, whatever the client_send handlers do; a command that is
\* not skipped has exactly one of each.
C35_ClientSendThenTransportSend ==
    /\ Len(ClientSends) = Len(sent)
    /\ \A j \in 1..Len(sent) :
          /\ ClientSends[j].data = sent[j]["arguments"][1]
          /\ ClientSends[j].data["invocationId"] = sent[j]["invocationId"]
          /\ ClientSends[j].sends = j - 1
          /\ InvokedFor(ClientSends[j].sub, "client_send")
                = Registered(pre.callbacks, "client_send")
    /\ IsCommandNotSkipped => Len(sent) = 1
    /\ raised = None \/ op.name = "connect_error"

\* C35 witness: a raising handler is registered for client_send and
\* send_message is called on a pinned client that is not connected: the
\* handler is invoked, what it raises is caught, and the envelope is still
\* handed to the transport, after the event.
C35_Witness ==
    /\ op.kind = "command"
    /\ op.name = "send_message"
    /\ ~pre.running
    /\ Len(invoked) >= 1
    /\ invoked[1].name = "client_send"
    /\ invoked[1].caught
    /\ Len(sent) = 1
    /\ Len(ClientSends) = 1
    /\ ClientSends[1].sends = 0
    /\ written = <<>>

\* C35, the connected case: the same with the envelope written.
C35_ConnectedReached ==
    /\ op.kind = "command"
    /\ pre.running
    /\ Len(invoked) >= 1
    /\ invoked[1].caught
    /\ Len(sent) = 1
    /\ Len(written) = 1

\* The names of the events the last operation emitted, in order.
EmittedNames == [k \in 1..Len(emitted) |-> emitted[k].name]

\* C36: a chatsSessionsUpdated payload with a non-empty list has its effects
\* in this order: SessionState is updated, subscribeToChat is announced and
\* handed to the transport, ready is emitted, the generic
\* chatsSessionsUpdated event is emitted; a chatStarted payload has ready
\* emitted before the generic chatStarted event; every one of these events
\* is emitted with the new pin in place.
C36_EffectOrder ==
    /\ (IsSessionsUpdated /\ OpSessions # <<>>)
          => /\ EmittedNames = <<"client_send", "ready", "chatsSessionsUpdated">>
             /\ Len(sent) = 1
             /\ sent[1]["arguments"][1]["$type"] = "subscribeToChat"
             /\ emitted[1].sends = 0
             /\ emitted[2].sends = 1
             /\ emitted[3].sends = 1
             /\ \A k \in 1..3 : emitted[k].seen = SessionState
             /\ emitted[2].data = session_id
    /\ IsChatStarted
          => /\ EmittedNames = <<"ready", "chatStarted">>
             /\ \A k \in 1..2 : emitted[k].seen = SessionState
             /\ emitted[1].data = session_id
             /\ session_id = Get(OpPayload, "sessionId")

\* C36 witness: pinned to A / s1, a list that holds only chat B / session s2
\* arrives: the subscription for s2 is handed over, then ready(s2) and the
\* generic event are emitted, all with s2 pinned.
C36_Witness ==
    /\ IsSessionsUpdated
    /\ pre.st.session_id = "s1"
    /\ session_id = "s2"
    /\ EmittedNames = <<"client_send", "ready", "chatsSessionsUpdated">>
    /\ emitted[2].sends = 1
    /\ emitted[2].seen.session_id = "s2"
    /\ emitted[1].seen.session_id = "s2"

\* C36, the other case: chatStarted re-pins from s1 to s2.
C36_ChatStartedReached ==
    /\ IsChatStarted
    /\ pre.st.session_id = "s1"
    /\ session_id = "s2"
    /\ EmittedNames = <<"ready", "chatStarted">>
    /\ emitted[1].seen.session_id = "s2"

\* C37: a chatsSessionsUpdated payload whose list is empty or absent changes
\* no SessionState field, hands no subscribeToChat (nothing at all) to the
\* transport and emits no ready; the generic chatsSessionsUpdated event is
\* its only event, emitted once with the payload.
C37_EmptySessionsList ==
    (IsSessionsUpdated /\ OpSessions = <<>>)
        => /\ SessionState = pre.st
           /\ sent = <<>>
           /\ written = <<>>
           /\ EmittedNames = <<"chatsSessionsUpdated">>
           /\ emitted[1].data = OpTaggedPayload
           /\ raised = None

\* C37 witness: pinned to A / s1 and connected, a payload with an empty list
\* arrives; the pin is kept and only the generic event is emitted.
C37_Witness ==
    /\ IsSessionsUpdated
    /\ "sessions" \in DOMAIN OpPayload
    /\ OpSessions = <<>>
    /\ pre.running
    /\ pre.st.session_id = "s1"
    /\ session_id = "s1"
    /\ active_chat_id = "A"
    /\ Len(emitted) = 1

\* C37, the other case: the payload has no "sessions" field at all.
C37_AbsentReached ==
    /\ IsSessionsUpdated
    /\ "sessions" \notin DOMAIN OpPayload
    /\ session_id = "s1"
    /\ Len(emitted) = 1

\* C38 (as claimed): sessionId and activeChatId are both unset or both set
\* in every state, and ready is never emitted with an unset session id.
C38_PinPairing ==
    /\ Truthy(session_id) <=> Truthy(active_chat_id)
    /\ \A k \in 1..Len(emitted) :
          emitted[k].name = "ready" => Truthy(emitted[k].data)

\* C38, the part that holds: when every chatsSessionsUpdated entry chosen and
\* every chatStarted payload carries both ids, the two fields are set
\* together; stated for one operation, from a state where they are paired.
C38_PairedWhenComplete ==
    ((Truthy(pre.st.session_id) <=> Truthy(pre.st.active_chat_id))
        /\ (IsChatStarted
              => Truthy(Get(OpPayload, "sessionId"))
                    /\ Truthy(Get(OpPayload, "chatId")))
        /\ (IsSessionsUpdated
              => \A i \in 1..Len(OpSessions) :
                    Truthy(Get(OpSessions[i], "sessionId"))
                       /\ Truthy(Get(OpSessions[i], "chatId"))))
        => /\ Truthy(session_id) <=> Truthy(active_chat_id)
           /\ \A k \in 1..Len(emitted) :
                 emitted[k].name = "ready" => Truthy(emitted[k].data)

\* The last operation of the older client handled a chatsSessionsUpdated
\* payload; its list; the chat_id the client had before.
IsLegacySessionsUpdated ==
    /\ op.kind = "legacy_frame"
    /\ op.message.frame["type"] = 1
    /\ Get(op.message.frame["arguments"][1], "$type") = "chatsSessionsUpdated"
LegacySessions == GetDefault(op.message.frame["arguments"][1], "sessions", <<>>)
LegacyPreChatId == op.message.chat_id

\* C39: in the older client, once chat_id is set a chatsSessionsUpdated
\* payload changes none of session_id, chat_id and _active_chat_id, sends no
\* subscribeToChat and emits no ready, whatever its list holds; when chat_id
\* is not set and the list is not empty, chat_id is taken from an entry of
\* the list, and session_id from that entry only if no session_id was set.
C39_LegacyPin ==
    /\ (IsLegacySessionsUpdated /\ Truthy(LegacyPreChatId))
          => /\ session_id = pre.st.session_id
             /\ legacy_chat_id = LegacyPreChatId
             /\ active_chat_id = pre.st.active_chat_id
             /\ sent = <<>>
             /\ EmittedNames = <<"chatsSessionsUpdated">>
    /\ (IsLegacySessionsUpdated /\ ~Truthy(LegacyPreChatId)
          /\ LegacySessions # <<>>)
          => /\ \E i \in 1..Len(LegacySessions) :
                   /\ legacy_chat_id = Get(LegacySessions[i], "chatId")
                   /\ active_chat_id = legacy_chat_id
                   /\ session_id = IF Truthy(pre.st.session_id)
                                   THEN pre.st.session_id
                                   ELSE Get(LegacySessions[i], "sessionId")
             /\ Len(sent) = 1
             /\ EmittedNames = <<"chatsSessionsUpdated", "ready">>

\* C39 witness: the older client is pinned to chat A with session s1 and a
\* list that holds only chat B / session s2 arrives; nothing changes.
C39_Witness ==
    /\ IsLegacySessionsUpdated
    /\ LegacyPreChatId = "A"
    /\ pre.st.session_id = "s1"
    /\ Len(LegacySessions) = 1
    /\ Get(LegacySessions[1], "chatId") = "B"
    /\ Get(LegacySessions[1], "sessionId") = "s2"
    /\ legacy_chat_id = "A"
    /\ session_id = "s1"
    /\ active_chat_id = "A"
    /\ sent = <<>>

\* C39, the first pin with a session already set: chat_id is not set,
\* session_id is s1, the list names chat A with session s2: the client pins
\* chat A and keeps session s1.
C39_FirstPinKeepsSession ==
    /\ IsLegacySessionsUpdated
    /\ ~Truthy(LegacyPreChatId)
    /\ pre.st.session_id = "s1"
    /\ Len(LegacySessions) = 1
    /\ Get(LegacySessions[1], "chatId") = "A"
    /\ Get(LegacySessions[1], "sessionId") = "s2"
    /\ legacy_chat_id = "A"
    /\ session_id = "s1"

----------------------------------------------------------------------------
(* EmitSpec: emissions whose handlers register handlers *)

\* Handlers of EmitSpec: a plain function, a function whose body registers
\* another function for the event it handles, and a function whose body
\* registers itself again.
EmitHandlers ==
    {[id |-> "f", is_async |-> FALSE, raises |-> FALSE, registers |-> None],
     [id |-> "r", is_async |-> FALSE, raises |-> FALSE, registers |-> "other"],
     [id |-> "s", is_async |-> TRUE, raises |-> FALSE, registers |-> "self"]}

\* Event names EmitSpec registers handlers for.
EmitEvents == {"message", "replyChunk"}

\* Frames the server sends in EmitSpec: one event of each handled name.
EmitFrames ==
    {("type" :> 1) @@ ("target" :> "ReceiveMessage") @@
        ("arguments" :> <<("$type" :> name) @@ ("text" :> "hi")>>) :
     name \in EmitEvents}

\* An operation of EmitSpec.
EmitStep(ctx, o) ==
    Effect(ctx, o) /\ UNCHANGED <<wire, subscribed, suspended, legacy_chat_id>>

\* The application registers a handler: client.on(name, handler).
EmitOn ==
    \E name \in EmitEvents, cb \in EmitHandlers :
        /\ CountHandlers(callbacks, DOMAIN callbacks) < MaxHandlers
        /\ EmitStep(On(Ctx0(TRUE), name, cb), Op("on", name, cb, None, None))

\* A frame arrives and is processed: its event is emitted to the handlers.
\* Emissions are followed while the registry holds at most MaxHandlers
\* handlers when they start.
EmitReceive ==
    \E message \in EmitFrames :
        /\ CountHandlers(callbacks, DOMAIN callbacks) <= MaxHandlers
        /\ EmitStep(HandleServerMessage(Ctx0(TRUE), message),
                    Op("emit_frame", "_handle_server_message", message, None,
                       None))

EmitNext ==
    \/ Return
    \/ EmitOn
    \/ EmitReceive

EmitSpec == Init /\ [][EmitNext]_vars

\* The last operation of EmitSpec processed a frame.
IsEmitFrame == op.kind = "emit_frame"

\* The event name of the frame the last operation processed.
EmitFrameName == op.message["arguments"][1]["$type"]

\* C40 (as claimed): an emission invokes the handlers that were registered
\* for the name when it started, each once and in order, and nothing else, so
\* it ends after as many turns as there were handlers then: a handler that
\* registers a further handler for the same name during the emission does not
\* make that handler run in the same emission, nor the emission run on.
C40_EmitOnlyRegisteredAtStart ==
    IsEmitFrame =>
        /\ invoked = ExpectedInvocations(Len(emitted))
        /\ InvokedFor(0, EmitFrameName) =
               Registered(pre.callbacks, EmitFrameName)

\* What the code does instead, first case: the handler registered during the
\* emission runs in that same emission, after the one that registered it.
C40_LateHandlerRuns ==
    /\ IsEmitFrame
    /\ Registered(pre.callbacks, EmitFrameName) =
           <<[id |-> "r", is_async |-> FALSE, raises |-> FALSE,
              registers |-> "other"]>>
    /\ InvokedFor(0, EmitFrameName) =
           <<[id |-> "r", is_async |-> FALSE, raises |-> FALSE,
              registers |-> "other"], LateCallback>>

\* What the code does instead, second case: a handler that registers itself
\* is invoked on every turn followed, and one more invocation is always
\* waiting in the list.
C40_EmissionRunsOn ==
    /\ IsEmitFrame
    /\ Len(Registered(pre.callbacks, EmitFrameName)) = 1
    /\ pre.callbacks[EmitFrameName][1].registers = "self"
    /\ Len(InvokedFor(0, EmitFrameName)) = MaxTurns
    /\ Len(Registered(callbacks, EmitFrameName)) = MaxTurns + 1

\* The part of the claim that does hold: when no handler registered for the
\* name registers anything, the emission invokes exactly the handlers of the
\* list, each once.
C40_WithoutRegistration ==
    (/\ IsEmitFrame
     /\ \A k \in 1..Len(Registered(pre.callbacks, EmitFrameName)) :
            pre.callbacks[EmitFrameName][k].registers = None)
        => /\ InvokedFor(0, EmitFrameName) =
                  Registered(pre.callbacks, EmitFrameName)
           /\ callbacks = pre.callbacks

====
